---- MODULE Spec2Model ----
(***************************************************************************)
(* PII anonymizer: PIIManager (pii_anonymizer/document_processor.py) and   *)
(* SemanticAliasGenerator (utils/alias_generator.py).                      *)
(*                                                                         *)
(* A Python str is a sequence of one-character strings.  Offsets are the   *)
(* 0-based offsets of the Python code; a span <<a, b>> is the slice        *)
(* text[a:b].                                                              *)
(***************************************************************************)
EXTENDS Integers, Sequences, FiniteSets, TLC

\* ------------------------------------------------------------------------
\* Bounds of the model
\* ------------------------------------------------------------------------
\* words per input text
MaxWords == 2
\* calls made on the managers in one behaviour
MaxOps == 4
\* calls of generate_alias in one behaviour of the generator specification
MaxGen == 4
\* calls in one behaviour of the load_mapping specification
MaxLoadOps == 3
\* calls in one behaviour of the specification of the text methods
MaxCalls == 3
\* calls of _create_placeholder in one behaviour of the allocator specification
MaxAllocations == 3
\* handlers registered and entries of the input directory in one behaviour
\* of the DocumentProcessor specification
MaxHandlers == 2
MaxEntries == 3
\* words per text given to the entity classifier on its own
MaxEntityWords == 3
\* calls in one behaviour of the specification of the read-only methods
MaxReadCalls == 4

\* ------------------------------------------------------------------------
\* Characters and Python str primitives
\* ------------------------------------------------------------------------
UpperChars == {"A","B","C","D","E","F","G","H","I","J","K","L","M",
               "N","O","P","Q","R","S","T","U","V","W","X","Y","Z"}
LowerChars == {"a","b","c","d","e","f","g","h","i","j","k","l","m",
               "n","o","p","q","r","s","t","u","v","w","x","y","z"}
DigitChars == {"0","1","2","3","4","5","6","7","8","9"}
HexChars == DigitChars \cup {"a","b","c","d","e","f"}
LetterChars == UpperChars \cup LowerChars
\* \w of the re module on the characters above
WordChars == LetterChars \cup DigitChars \cup {"_"}

Min(S) == CHOOSE x \in S : \A y \in S : x <= y
Max(S) == CHOOSE x \in S : \A y \in S : x >= y

\* s[a:b] for 0 <= a, with b clipped to len(s)
Slice(s, a, b) == SubSeq(s, a + 1, IF b > Len(s) THEN Len(s) ELSE b)
\* s[i] for a 0-based offset, "" outside the string
At(s, i) == IF i >= 0 /\ i < Len(s) THEN s[i + 1] ELSE ""
\* s.startswith(sub, i)
StartsAt(s, sub, i) == i >= 0 /\ i + Len(sub) <= Len(s) /\ SubSeq(s, i + 1, i + Len(sub)) = sub
\* sub in s
Contains(s, sub) == \E i \in 0..(Len(s) - Len(sub)) : StartsAt(s, sub, i)
\* s.find(sub): the lowest offset of sub in s, -1 when absent
Find(s, sub) ==
    LET hits == {i \in 0..(Len(s) - Len(sub)) : StartsAt(s, sub, i)}
    IN IF hits = {} THEN -1 ELSE Min(hits)

RECURSIVE ReplaceFrom(_, _, _, _)
ReplaceFrom(s, old, new, i) ==
    IF i >= Len(s) THEN <<>>
    ELSE IF StartsAt(s, old, i) THEN new \o ReplaceFrom(s, old, new, i + Len(old))
    ELSE <<s[i + 1]>> \o ReplaceFrom(s, old, new, i + 1)
\* s.replace(old, new) for a non-empty old: every non-overlapping occurrence, left to right
Replace(s, old, new) == ReplaceFrom(s, old, new, 0)

\* length of the longest run of characters of class cls starting at offset i
RECURSIVE Run(_, _, _)
Run(s, cls, i) == IF At(s, i) \in cls THEN 1 + Run(s, cls, i + 1) ELSE 0

\* \b at offset i: exactly one of s[i-1], s[i] is a word character
Boundary(s, i) == (At(s, i - 1) \in WordChars) # (At(s, i) \in WordChars)

\* str.upper() on ASCII letters
UpperOf(c) ==
    CASE c = "a" -> "A" [] c = "b" -> "B" [] c = "c" -> "C" [] c = "d" -> "D"
      [] c = "e" -> "E" [] c = "f" -> "F" [] c = "g" -> "G" [] c = "h" -> "H"
      [] c = "i" -> "I" [] c = "j" -> "J" [] c = "k" -> "K" [] c = "l" -> "L"
      [] c = "m" -> "M" [] c = "n" -> "N" [] c = "o" -> "O" [] c = "p" -> "P"
      [] c = "q" -> "Q" [] c = "r" -> "R" [] c = "s" -> "S" [] c = "t" -> "T"
      [] c = "u" -> "U" [] c = "v" -> "V" [] c = "w" -> "W" [] c = "x" -> "X"
      [] c = "y" -> "Y" [] c = "z" -> "Z" [] OTHER -> c
Upper(s) == [i \in 1..Len(s) |-> UpperOf(s[i])]
\* str.lower() on ASCII letters
LowerOf(c) == IF c \in UpperChars THEN CHOOSE l \in LowerChars : UpperOf(l) = c ELSE c
Lower(s) == [i \in 1..Len(s) |-> LowerOf(s[i])]

\* str(n) for n >= 0
DigitOf(d) == CHOOSE c \in DigitChars :
    c = <<"0","1","2","3","4","5","6","7","8","9">>[d + 1]
RECURSIVE IntToStr(_)
IntToStr(n) == IF n < 10 THEN <<DigitOf(n)>> ELSE IntToStr(n \div 10) \o <<DigitOf(n % 10)>>

\* the sequence obtained by running finditer with a matcher: MatchEnd(s, i) is
\* the end of the match starting at i, or -1; the scan resumes at the end of a match
RECURSIVE SpansFrom(_, _, _)
SpansFrom(ends, n, i) ==
    IF i >= n THEN <<>>
    ELSE IF ends[i] >= 0 THEN <<(<<i, ends[i]>>)>> \o SpansFrom(ends, n, ends[i])
    ELSE SpansFrom(ends, n, i + 1)

\* ------------------------------------------------------------------------
\* PIIManager.restore_text
\* ------------------------------------------------------------------------
TypeChars == UpperChars \cup {"_"}

\* uuid_pattern <[A-Z_]+_[0-9a-f]{8}> at offset i.  No hex digit is in [A-Z_],
\* so the separating "_" is the last character of the [A-Z_] run after "<".
UuidEnd(s, i) ==
    LET r == Run(s, TypeChars, i + 1)
    IN IF /\ At(s, i) = "<"
          /\ r >= 2
          /\ At(s, i + r) = "_"
          /\ \A k \in 1..8 : At(s, i + r + k) \in HexChars
          /\ At(s, i + r + 9) = ">"
       THEN i + r + 10 ELSE -1

\* semantic_pattern \b[A-Z][A-Z_]+[A-Z]\b at offset i: the greedy [A-Z_]+
\* gives the longest end that is an uppercase letter followed by \b
SemanticEnd(s, i) ==
    LET r == Run(s, TypeChars, i)
        ends == {e \in (i + 3)..(i + r) : At(s, e - 1) \in UpperChars /\ Boundary(s, e)}
    IN IF Boundary(s, i) /\ At(s, i) \in UpperChars /\ ends # {} THEN Max(ends) ELSE -1

UuidSpans(s) == SpansFrom([i \in 0..(Len(s) - 1) |-> UuidEnd(s, i)], Len(s), 0)
SemanticSpans(s) == SpansFrom([i \in 0..(Len(s) - 1) |-> SemanticEnd(s, i)], Len(s), 0)

\* all_matches: the uuid matches followed by the semantic matches, each with its text
AllMatches(s) ==
    LET spans == UuidSpans(s) \o SemanticSpans(s)
    IN [k \in 1..Len(spans) |-> [span |-> spans[k], text |-> Slice(s, spans[k][1], spans[k][2])]]

\* a sort by ascending start
RECURSIVE SortByStartAsc(_)
SortByStartAsc(ms) ==
    IF ms = <<>> THEN <<>>
    ELSE LET low == Min({ms[k].span[1] : k \in 1..Len(ms)})
             j == Min({k \in 1..Len(ms) : ms[k].span[1] = low})
         IN <<ms[j]>> \o SortByStartAsc(SubSeq(ms, 1, j - 1) \o SubSeq(ms, j + 1, Len(ms)))

\* list.sort(key=start, reverse=True): stable, so among equal starts the
\* earlier element of the list stays first
RECURSIVE SortByStartDesc(_)
SortByStartDesc(ms) ==
    IF ms = <<>> THEN <<>>
    ELSE LET top == Max({ms[k].span[1] : k \in 1..Len(ms)})
             j == Min({k \in 1..Len(ms) : ms[k].span[1] = top})
         IN <<ms[j]>> \o SortByStartDesc(SubSeq(ms, 1, j - 1) \o SubSeq(ms, j + 1, Len(ms)))

\* a loop that deletes the matches that are not keys of the reverse map
RECURSIVE SpliceAllErasing(_, _, _)
SpliceAllErasing(cur, ms, rm) ==
    IF ms = <<>> THEN cur
    ELSE LET m == Head(ms)
             nxt == Slice(cur, 0, m.span[1])
                    \o (IF m.text \in DOMAIN rm THEN rm[m.text] ELSE <<>>)
                    \o Slice(cur, m.span[2], Len(cur))
         IN SpliceAllErasing(nxt, Tail(ms), rm)

\* the loop of restore_text: every match that is a key of the reverse map is
\* spliced over its span (offsets of the scan of the input) in the current text
RECURSIVE SpliceAll(_, _, _)
SpliceAll(cur, ms, rm) ==
    IF ms = <<>> THEN cur
    ELSE LET m == Head(ms)
             nxt == IF m.text \in DOMAIN rm
                    THEN Slice(cur, 0, m.span[1]) \o rm[m.text] \o Slice(cur, m.span[2], Len(cur))
                    ELSE cur
         IN SpliceAll(nxt, Tail(ms), rm)

restore_text(rm, anonymized_text) ==
    SpliceAll(anonymized_text, SortByStartDesc(AllMatches(anonymized_text)), rm)

\* ------------------------------------------------------------------------
\* PIIManager.get_statistics
\* ------------------------------------------------------------------------
TOTAL == <<"T","O","T","A","L">>

\* s.strip('<')
RECURSIVE StripLt(_)
StripLt(s) ==
    IF s = <<>> THEN s
    ELSE IF Head(s) = "<" THEN StripLt(Tail(s))
    ELSE IF s[Len(s)] = "<" THEN StripLt(SubSeq(s, 1, Len(s) - 1))
    ELSE s

\* placeholder.split('_')[0].strip('<')
TypePrefix(placeholder) ==
    LET u == Find(placeholder, <<"_">>)
    IN StripLt(IF u = -1 THEN placeholder ELSE Slice(placeholder, 0, u))

\* the dict returned by get_statistics: one count per parsed prefix of a key of
\* the reverse map, then stats['TOTAL'] = len(pii_map)
get_statistics(pm, rm) ==
    LET keys == {TypePrefix(p) : p \in DOMAIN rm}
    IN [k \in keys \cup {TOTAL} |->
          IF k = TOTAL THEN Cardinality(DOMAIN pm)
          ELSE Cardinality({p \in DOMAIN rm : TypePrefix(p) = k})]

\* ------------------------------------------------------------------------
\* Input texts
\* ------------------------------------------------------------------------
\* The words the input texts are made of: a month name, the same word in
\* lower case, a day number before a comma, a dotted quad, an upper-case
\* word that is also the type prefix of an opaque placeholder, and a token
\* of the shape of a location alias.
Vocabulary ==
    { <<"M","a","y">>, <<"m","a","y">>, <<"1",",">>, <<"1",".","1",".","1",".","1">>, <<"D","A","T","E">>, <<"L","O","C","A","T","I","O","N","_","1">> }

\* the characters of the input texts
Alphabet == UNION {{w[i] : i \in 1..Len(w)} : w \in Vocabulary} \cup {" "}

\* ' '.join(ws)
RECURSIVE Join(_)
Join(ws) == IF Len(ws) = 1 THEN ws[1] ELSE ws[1] \o <<" ">> \o Join(Tail(ws))

\* the texts of n words
TextsOf(n) == {Join(ws) : ws \in [1..n -> Vocabulary]}
Texts == UNION {TextsOf(n) : n \in 1..MaxWords}

\* ------------------------------------------------------------------------
\* PiiConfig.patterns (the Pattern Catalog)
\* ------------------------------------------------------------------------
\* Of the nine default patterns, EMAIL needs "@", PHONE, SSN and CREDIT_CARD
\* a run of three digits or one of "(" "+", ADDRESS a street keyword, URL
\* "http" and CURRENCY a currency sign: none of them can match a text over
\* Alphabet, whose digit runs have length one.  The two that can match,
\* IP_ADDRESS and DATE, are modelled; they are applied in the dict order of
\* the catalog, IP_ADDRESS before DATE.
T_IP_ADDRESS == <<"I","P","_","A","D","D","R","E","S","S">>
T_DATE == <<"D","A","T","E">>

\* IP_ADDRESS \b(?:\d{1,3}\.){3}\d{1,3}\b at offset i
RECURSIVE IpGroups(_, _, _)
IpGroups(s, p, n) ==
    LET r == Run(s, DigitChars, p)
    IN IF r < 1 \/ r > 3 THEN -1
       ELSE IF n = 0 THEN (IF Boundary(s, p + r) THEN p + r ELSE -1)
       ELSE IF At(s, p + r) = "." THEN IpGroups(s, p + r + 1, n - 1)
       ELSE -1
IpEnd(s, i) == IF Boundary(s, i) THEN IpGroups(s, i, 3) ELSE -1

MonthNames ==
    << <<"J","a","n","u","a","r","y">>, <<"F","e","b","r","u","a","r","y">>, <<"M","a","r","c","h">>, <<"A","p","r","i","l">>, <<"M","a","y">>, <<"J","u","n","e">>,
       <<"J","u","l","y">>, <<"A","u","g","u","s","t">>, <<"S","e","p","t","e","m","b","e","r">>, <<"O","c","t","o","b","e","r">>, <<"N","o","v","e","m","b","e","r">>, <<"D","e","c","e","m","b","e","r">> >>

\* DATE at offset i.  The alternatives are tried in the order of the pattern.
\* The first five and the seventh need "/" or "-" between digit groups or a
\* run of four digits, which no text over Alphabet has; the sixth is a full
\* month name between word boundaries; the eighth is \b\d{1,2}\b(?=\s*,).
DateEnd(s, i) ==
    LET months == {k \in 1..Len(MonthNames) :
                      /\ StartsAt(s, MonthNames[k], i)
                      /\ Boundary(s, i + Len(MonthNames[k]))}
        r == Run(s, DigitChars, i)
        e == i + r
    IN IF Boundary(s, i) /\ months # {}
          THEN i + Len(MonthNames[Min(months)])
       ELSE IF /\ Boundary(s, i)
               /\ r \in {1, 2}
               /\ Boundary(s, e)
               /\ At(s, e + Run(s, {" "}, e)) = ","
          THEN e
       ELSE -1

IpSpans(s) == SpansFrom([i \in 0..(Len(s) - 1) |-> IpEnd(s, i)], Len(s), 0)
DateSpans(s) == SpansFrom([i \in 0..(Len(s) - 1) |-> DateEnd(s, i)], Len(s), 0)

\* step 1 of detect_pii_in_text: (original, pii_type) of every match, pattern by pattern
PatternDetections(text) ==
    LET ip == IpSpans(text)
        dt == DateSpans(text)
    IN [k \in 1..Len(ip) |-> [value |-> Slice(text, ip[k][1], ip[k][2]), type |-> T_IP_ADDRESS]]
       \o [k \in 1..Len(dt) |-> [value |-> Slice(text, dt[k][1], dt[k][2]), type |-> T_DATE]]

\* ------------------------------------------------------------------------
\* PIIManager._detect_entities_with_ner (the Entity Classifier)
\* ------------------------------------------------------------------------
T_NAME == <<"N","A","M","E">>
T_ORGANIZATION == <<"O","R","G","A","N","I","Z","A","T","I","O","N">>
T_PRODUCT == <<"P","R","O","D","U","C","T">>
T_LOCATION == <<"L","O","C","A","T","I","O","N">>
L_PERSON == <<"P","E","R","S","O","N">>
L_ORG == <<"O","R","G">>
L_GPE == <<"G","P","E">>

\* PiiConfig.entity_type_mapping.get(label, label)
entity_type_mapping(label) ==
    CASE label = <<"P","E","R","S","O","N">> -> T_NAME
      [] label = <<"P","E","R">> -> T_NAME
      [] label = <<"P","E","R","S","O","N","_","N","A","M","E">> -> T_NAME
      [] label = <<"O","R","G">> -> T_ORGANIZATION
      [] label = <<"G","P","E">> -> T_LOCATION
      [] label = <<"L","O","C">> -> T_LOCATION
      [] label = <<"P","H","O","N","E","_","N","U","M","B","E","R">> -> <<"P","H","O","N","E">>
      [] OTHER -> label

\* the labels of doc.ents that step 1 keeps
KeptLabels == { <<"P","E","R","S","O","N">>, <<"O","R","G">>, <<"P","R","O","D","U","C","T">>, <<"G","P","E">> }

\* Step 1.  ents is what the external nlp(text) returned: a sequence of
\* [start, end, label].
RECURSIVE NerStep(_, _, _)
NerStep(text, ents, acc) ==
    IF ents = <<>> THEN acc
    ELSE LET ent == Head(ents)
             t == Slice(text, ent.start, ent.end)
         IN IF ent.label \in KeptLabels /\ ~(\E k \in 1..Len(t) : t[k] \in {"\n", "\r"})
            THEN NerStep(text, Tail(ents),
                   [entities |-> Append(acc.entities,
                        [text |-> t, type |-> entity_type_mapping(ent.label),
                         start |-> ent.start, end |-> ent.end]),
                    detected_spans |-> acc.detected_spans \cup {<<ent.start, ent.end>>}])
            ELSE NerStep(text, Tail(ents), acc)

\* proper_noun_pattern
\*   \b[A-Z][A-Za-z..']*(?:[ \t]+(?:[A-Z][A-Za-z..']*|of|and|the|de|la|le|du)|[ \t]+\d+)*\b
\* Alphabet has no apostrophe and no accented letter, so a word is a run of
\* ASCII letters; a greedy run that is followed by a character of another
\* class in every continuation can only match at its full length.
Connectives == << <<"o","f">>, <<"a","n","d">>, <<"t","h","e">>, <<"d","e">>, <<"l","a">>, <<"l","e">>, <<"d","u">> >>
BlankChars == {" ", "\t"}

RECURSIVE ProperNounRest(_, _), ProperNounConnective(_, _, _)
\* the connective alternatives, tried in order from the k-th
ProperNounConnective(s, q, k) ==
    IF k > Len(Connectives) THEN -1
    ELSE LET r == IF StartsAt(s, Connectives[k], q)
                  THEN ProperNounRest(s, q + Len(Connectives[k])) ELSE -1
         IN IF r # -1 THEN r ELSE ProperNounConnective(s, q, k + 1)
\* the end of the match when the part before offset p is matched: one more
\* iteration of the group if the rest then matches, else stop at p if \b holds
ProperNounRest(s, p) ==
    LET q == p + Run(s, BlankChars, p)
        viaWord == IF q > p /\ At(s, q) \in UpperChars
                   THEN ProperNounRest(s, q + 1 + Run(s, LetterChars, q + 1)) ELSE -1
        viaConn == IF q > p THEN ProperNounConnective(s, q, 1) ELSE -1
        viaDigits == IF q > p /\ At(s, q) \in DigitChars
                     THEN ProperNounRest(s, q + Run(s, DigitChars, q)) ELSE -1
    IN IF viaWord # -1 THEN viaWord
       ELSE IF viaConn # -1 THEN viaConn
       ELSE IF viaDigits # -1 THEN viaDigits
       ELSE IF Boundary(s, p) THEN p
       ELSE -1
ProperNounEnd(s, i) ==
    IF Boundary(s, i) /\ At(s, i) \in UpperChars
    THEN ProperNounRest(s, i + 1 + Run(s, LetterChars, i + 1)) ELSE -1
ProperNounSpans(s) ==
    SpansFrom([i \in 0..(Len(s) - 1) |-> ProperNounEnd(s, i)], Len(s), 0)

single_word_blacklist ==
    { <<"T","h","e">>, <<"A">>, <<"A","n">>, <<"A","n","d">>, <<"O","r">>, <<"B","u","t">>, <<"F","o","r">>, <<"T","o">>, <<"O","f">>, <<"I","n">>, <<"O","n">>, <<"A","t">>,
      <<"B","y">>, <<"W","i","t","h">>, <<"F","r","o","m">>, <<"A","s">>, <<"I","s">>, <<"W","a","s">>, <<"A","r","e">>, <<"W","e","r","e">>, <<"B","e">>, <<"B","e","e","n">>,
      <<"H","e">>, <<"S","h","e">>, <<"I","t">>, <<"T","h","e","y">>, <<"W","e">>, <<"I">>, <<"Y","o","u">>, <<"T","h","i","s">>, <<"T","h","a","t">>, <<"T","h","e","s","e">>, <<"T","h","o","s","e">>,
      <<"H","a","v","e">>, <<"H","a","s">>, <<"H","a","d">>, <<"D","o">>, <<"D","o","e","s">>, <<"D","i","d">>, <<"W","i","l","l">>, <<"W","o","u","l","d">>, <<"C","o","u","l","d">>, <<"S","h","o","u","l","d">>,
      <<"C","a","n">>, <<"M","a","y">>, <<"M","i","g","h","t">>, <<"M","u","s","t">>, <<"S","h","a","l","l">> }
ProductKeywords ==
    { <<"S","u","i","t","e">>, <<"P","l","a","t","f","o","r","m">>, <<"S","y","s","t","e","m">>, <<"T","o","o","l">>, <<"A","p","p">>, <<"S","e","r","v","i","c","e">>, <<"S","o","l","u","t","i","o","n">>, <<"E","n","g","i","n","e">>,
      <<"F","r","a","m","e","w","o","r","k">>, <<"H","u","b">>, <<"P","o","r","t","a","l">>, <<"C","l","o","u","d">>, <<"P","r","o">>, <<"U","l","t","r","a">>, <<"P","r","e","m","i","u","m">>, <<"P","l","u","s">>,
      <<"A","d","v","a","n","c","e","d">>, <<"E","l","i","t","e">>, <<"M","e","g","a">>, <<"S","u","p","e","r">>, <<"M","a","x">>, <<"T","u","r","b","o">>, <<"P","o","w","e","r">>, <<"S","m","a","r","t">> }
OrgSuffixes ==
    { <<"I","n","c">>, <<"L","L","C">>, <<"C","o","r","p">>, <<"C","o","r","p","o","r","a","t","i","o","n">>, <<"L","t","d">>, <<"L","i","m","i","t","e","d">>, <<"G","r","o","u","p">>, <<"I","n","d","u","s","t","r","i","e","s">>,
      <<"S","o","l","u","t","i","o","n","s">>, <<"S","y","s","t","e","m","s">>, <<"T","e","c","h","n","o","l","o","g","i","e","s">>, <<"E","n","t","e","r","p","r","i","s","e","s">>, <<"P","a","r","t","n","e","r","s">>, <<"V","e","n","t","u","r","e","s">>,
      <<"C","o","m","p","a","n","y">>, <<"A","s","s","o","c","i","a","t","e","s">> }
LocationWords ==
    { <<"A","m","e","r","i","c","a">>, <<"E","u","r","o","p","e">>, <<"A","s","i","a">>, <<"A","f","r","i","c","a">>, <<"N","o","r","t","h">>, <<"S","o","u","t","h">>, <<"E","a","s","t">>, <<"W","e","s","t">>,
      <<"C","i","t","y">>, <<"T","o","w","n">>, <<"I","s","l","a","n","d">>, <<"M","o","u","n","t","a","i","n">>, <<"R","i","v","e","r">>, <<"L","a","k","e">>, <<"V","a","l","l","e","y">> }

\* str.isupper() / str.islower(): some cased character, and none of the other case
IsUpperStr(s) == (\E k \in 1..Len(s) : s[k] \in UpperChars) /\ ~(\E k \in 1..Len(s) : s[k] \in LowerChars)
IsLowerStr(s) == (\E k \in 1..Len(s) : s[k] \in LowerChars) /\ ~(\E k \in 1..Len(s) : s[k] \in UpperChars)

\* s.split(): the maximal runs of non-blank characters
RECURSIVE SplitFrom(_, _)
SplitFrom(s, i) ==
    IF i >= Len(s) THEN <<>>
    ELSE IF At(s, i) \in BlankChars THEN SplitFrom(s, i + 1)
    ELSE LET n == Min({k \in 1..(Len(s) - i) : k = Len(s) - i \/ At(s, i + k) \in BlankChars})
         IN <<Slice(s, i, i + n)>> \o SplitFrom(s, i + n)
Split(s) == SplitFrom(s, 0)

HasBlank(s) == \E k \in 1..Len(s) : s[k] = " "

\* the classification heuristic of step 2
ClassifyProperNoun(matched_text) ==
    LET words == Split(matched_text)
    IN IF \E kw \in ProductKeywords : Contains(matched_text, kw) THEN T_PRODUCT
       ELSE IF \E sf \in OrgSuffixes : Contains(matched_text, sf) THEN T_ORGANIZATION
       ELSE IF HasBlank(matched_text)
            THEN IF /\ Len(words) = 2
                    /\ \A k \in 1..Len(words) :
                          Len(words[k]) > 1 =>
                             /\ words[k][1] \in UpperChars
                             /\ IsLowerStr(Tail(words[k]))
                 THEN T_NAME
                 ELSE IF \E k \in 1..Len(words) : words[k] \in LocationWords THEN T_LOCATION
                 ELSE T_ORGANIZATION
       ELSE IF Len(matched_text) = 2 /\ IsUpperStr(matched_text) THEN T_LOCATION
       ELSE T_ORGANIZATION

\* the single-word filter of step 2: True when the match is skipped
SkippedSingleWord(matched_text) ==
    /\ ~HasBlank(matched_text)
    /\ \/ matched_text \in single_word_blacklist
       \/ /\ Len(matched_text) <= 2
          /\ ~(\E k \in 1..Len(matched_text) : matched_text[k] \in {"À", "-", "ÿ"})

\* step 2: every span that is not yet claimed and not skipped by the
\* single-word filter is added with its type and claimed
RECURSIVE ProperNounStep(_, _, _)
ProperNounStep(text, spans, acc) ==
    IF spans = <<>> THEN acc
    ELSE LET sp == Head(spans)
             t == Slice(text, sp[1], sp[2])
         IN IF sp \in acc.detected_spans \/ SkippedSingleWord(t)
            THEN ProperNounStep(text, Tail(spans), acc)
            ELSE ProperNounStep(text, Tail(spans),
                   [entities |-> Append(acc.entities,
                        [text |-> t, type |-> ClassifyProperNoun(t), start |-> sp[1], end |-> sp[2]]),
                    detected_spans |-> acc.detected_spans \cup {sp}])

COMMON_WORDS_BLACKLIST ==
    { <<"O","K">>, <<"A","M">>, <<"P","M">>, <<"O","R">>, <<"I","F">>, <<"I","S">>, <<"A","S">>, <<"A","T">>, <<"W","E">>, <<"N","O">> }
AmbiguousWords == { <<"U","S">>, <<"I","T">>, <<"A","I">> }
org_indicators ==
    { <<"I","n","c">>, <<"L","L","C">>, <<"C","o","r","p">>, <<"L","t","d">>, <<"L","i","m","i","t","e","d">>, <<"G","r","o","u","p">>, <<"I","n","d","u","s","t","r","i","e","s">>,
      <<"S","o","l","u","t","i","o","n","s">>, <<"S","y","s","t","e","m","s">>, <<"T","e","c","h","n","o","l","o","g","i","e","s">>, <<"E","n","t","e","r","p","r","i","s","e","s">>, <<"C","o","m","p","a","n","y">> }

\* abbrev_pattern \b[A-Z]{2,5}\b at offset i: an upper-case run of 2..5
\* letters between word boundaries
AbbrevEnd(s, i) ==
    LET r == Run(s, UpperChars, i)
    IN IF Boundary(s, i) /\ r >= 2 /\ r <= 5 /\ Boundary(s, i + r) THEN i + r ELSE -1
AbbrevSpans(s) == SpansFrom([i \in 0..(Len(s) - 1) |-> AbbrevEnd(s, i)], Len(s), 0)

\* the context test for US, IT, AI: an organization indicator, or a
\* capitalized word \b[A-Z][a-z]+\b, within 30 characters before or after
HasContext(text, start, end) ==
    LET context == Slice(text, IF start > 30 THEN start - 30 ELSE 0, start)
                   \o Slice(text, end, end + 30)
        has_org_context == \E ind \in org_indicators : Contains(context, ind)
        has_caps_context ==
            \E i \in 0..(Len(context) - 1) :
               LET r == Run(context, LowerChars, i + 1)
               IN /\ Boundary(context, i)
                  /\ At(context, i) \in UpperChars
                  /\ r >= 1
                  /\ Boundary(context, i + 1 + r)
    IN has_org_context \/ has_caps_context

\* step 3: True when the abbreviation is skipped
SkippedAbbrev(text, sp) ==
    LET t == Slice(text, sp[1], sp[2])
    IN \/ t \in COMMON_WORDS_BLACKLIST
       \/ t \in AmbiguousWords /\ ~HasContext(text, sp[1], sp[2])

\* alphanumeric_pattern \b(?:\d+[A-Z]+|[A-Z]+\d+)\b at offset i
AlphanumericEnd(s, i) ==
    LET d1 == Run(s, DigitChars, i)
        u1 == Run(s, UpperChars, i + d1)
        u2 == Run(s, UpperChars, i)
        d2 == Run(s, DigitChars, i + u2)
    IN IF ~Boundary(s, i) THEN -1
       ELSE IF d1 >= 1 /\ u1 >= 1 /\ Boundary(s, i + d1 + u1) THEN i + d1 + u1
       ELSE IF u2 >= 1 /\ d2 >= 1 /\ Boundary(s, i + u2 + d2) THEN i + u2 + d2
       ELSE -1
AlphanumericSpans(s) ==
    SpansFrom([i \in 0..(Len(s) - 1) |-> AlphanumericEnd(s, i)], Len(s), 0)

\* stock_ticker_pattern \b(?:NYSE|NASDAQ|FTSE|S&P|DOW)(?::\s*|\s+)([A-Z]{1,5}|\d+)\b
Exchanges == << <<"N","Y","S","E">>, <<"N","A","S","D","A","Q">>, <<"F","T","S","E">>, <<"S","&","P">>, <<"D","O","W">> >>
SpaceChars == {" ", "\t", "\n", "\r"}
StockTickerEnd(s, i) ==
    LET xs == {k \in 1..Len(Exchanges) : StartsAt(s, Exchanges[k], i)}
        a == i + Len(Exchanges[Min(xs)])
        colon == At(s, a) = ":"
        b == IF colon THEN a + 1 + Run(s, SpaceChars, a + 1) ELSE a + Run(s, SpaceChars, a)
        u == Run(s, UpperChars, b)
        d == Run(s, DigitChars, b)
    IN IF ~Boundary(s, i) \/ xs = {} THEN -1
       ELSE IF ~colon /\ b = a THEN -1
       ELSE IF u >= 1 /\ u <= 5 /\ Boundary(s, b + u) THEN b + u
       ELSE IF d >= 1 /\ Boundary(s, b + d) THEN b + d
       ELSE -1
StockTickerSpans(s) ==
    SpansFrom([i \in 0..(Len(s) - 1) |-> StockTickerEnd(s, i)], Len(s), 0)

\* steps 3 to 5: every span that is not claimed (and, in step 3, not
\* skipped) is added as ORGANIZATION and claimed
RECURSIVE OrganizationStep(_, _, _, _)
OrganizationStep(text, spans, filtered, acc) ==
    IF spans = <<>> THEN acc
    ELSE LET sp == Head(spans)
         IN IF sp \in acc.detected_spans \/ (filtered /\ SkippedAbbrev(text, sp))
            THEN OrganizationStep(text, Tail(spans), filtered, acc)
            ELSE OrganizationStep(text, Tail(spans), filtered,
                   [entities |-> Append(acc.entities,
                        [text |-> Slice(text, sp[1], sp[2]), type |-> T_ORGANIZATION,
                         start |-> sp[1], end |-> sp[2]]),
                    detected_spans |-> acc.detected_spans \cup {sp}])

\* _detect_entities_with_ner for a manager whose NER is enabled: the list
\* entities, given the spans ents returned by nlp(text)
detect_entities_with_ner(text, ents) ==
    LET s1 == NerStep(text, ents, [entities |-> <<>>, detected_spans |-> {}])
        s2 == ProperNounStep(text, ProperNounSpans(text), s1)
        s3 == OrganizationStep(text, AbbrevSpans(text), TRUE, s2)
        s4 == OrganizationStep(text, AlphanumericSpans(text), FALSE, s3)
        s5 == OrganizationStep(text, StockTickerSpans(text), FALSE, s4)
    IN s5.entities

\* ------------------------------------------------------------------------
\* SemanticAliasGenerator
\* ------------------------------------------------------------------------
company_prefixes ==
    << <<"A","c","m","e">>, <<"G","l","o","b","a","l">>, <<"T","e","c","h">>, <<"D","i","g","i","t","a","l">>, <<"S","m","a","r","t">>, <<"M","e","g","a">>, <<"P","r","i","m","e">>,
       <<"A","l","p","h","a">>, <<"B","e","t","a">>, <<"O","m","e","g","a">>, <<"N","e","x","u","s">>, <<"Q","u","a","n","t","u","m">>, <<"C","y","b","e","r">>, <<"D","y","n","a","m","i","c">> >>
company_suffixes ==
    << <<"C","o","r","p">>, <<"I","n","c">>, <<"L","L","C">>, <<"I","n","d","u","s","t","r","i","e","s">>, <<"S","o","l","u","t","i","o","n","s">>, <<"S","y","s","t","e","m","s">>,
       <<"T","e","c","h","n","o","l","o","g","i","e","s">>, <<"E","n","t","e","r","p","r","i","s","e","s">>, <<"G","r","o","u","p">>, <<"P","a","r","t","n","e","r","s">>, <<"V","e","n","t","u","r","e","s">> >>
first_names ==
    << <<"J","o","h","n">>, <<"J","a","n","e">>, <<"M","i","c","h","a","e","l">>, <<"S","a","r","a","h">>, <<"D","a","v","i","d">>, <<"E","m","i","l","y">>,
       <<"R","o","b","e","r","t">>, <<"L","i","s","a">>, <<"J","a","m","e","s">>, <<"M","a","r","i","a">>, <<"W","i","l","l","i","a","m">>, <<"P","a","t","r","i","c","i","a">>,
       <<"R","i","c","h","a","r","d">>, <<"J","e","n","n","i","f","e","r">>, <<"T","h","o","m","a","s">>, <<"L","i","n","d","a">>, <<"C","h","a","r","l","e","s">>, <<"S","u","s","a","n">> >>
last_names ==
    << <<"S","m","i","t","h">>, <<"J","o","h","n","s","o","n">>, <<"W","i","l","l","i","a","m","s">>, <<"B","r","o","w","n">>, <<"J","o","n","e","s">>, <<"G","a","r","c","i","a">>,
       <<"M","i","l","l","e","r">>, <<"D","a","v","i","s">>, <<"R","o","d","r","i","g","u","e","z">>, <<"M","a","r","t","i","n","e","z">>, <<"W","i","l","s","o","n">>, <<"A","n","d","e","r","s","o","n">>,
       <<"T","a","y","l","o","r">>, <<"T","h","o","m","a","s">>, <<"M","o","o","r","e">>, <<"J","a","c","k","s","o","n">>, <<"M","a","r","t","i","n">>, <<"L","e","e">> >>
product_prefixes ==
    << <<"P","r","o">>, <<"U","l","t","r","a">>, <<"S","u","p","e","r">>, <<"M","e","g","a">>, <<"P","r","e","m","i","u","m">>, <<"E","l","i","t","e">>,
       <<"A","d","v","a","n","c","e","d">>, <<"S","m","a","r","t">>, <<"T","u","r","b","o">>, <<"P","o","w","e","r">>, <<"M","a","x">>, <<"P","l","u","s">> >>
product_types ==
    << <<"S","u","i","t","e">>, <<"P","l","a","t","f","o","r","m">>, <<"S","y","s","t","e","m">>, <<"T","o","o","l">>, <<"A","p","p">>, <<"S","e","r","v","i","c","e">>,
       <<"S","o","l","u","t","i","o","n">>, <<"E","n","g","i","n","e">>, <<"F","r","a","m","e","w","o","r","k">>, <<"H","u","b">>, <<"P","o","r","t","a","l">>, <<"C","l","o","u","d">> >>

K_COMPANY == <<"C","O","M","P","A","N","Y">>
K_PERSON == <<"P","E","R","S","O","N">>
K_PRODUCT == <<"P","R","O","D","U","C","T">>
K_LOCATION == <<"L","O","C","A","T","I","O","N">>

\* The outcomes of the random draws of one allocation: the indexes picked by
\* the two random.choice calls of a generate_*_name, and uuid.uuid4().hex[:8].
\* The second outcome repeats the first index, so that two draws can agree on
\* one word and differ on the other; the first nonce contains the digit of
\* the day number of Vocabulary.
DrawSet ==
    { [first |-> 1, second |-> 1, nonce |-> <<"0","b","1","e","2","d","3","c">>],
      [first |-> 1, second |-> 2, nonce |-> <<"a","7","f","4","c","9","e","6">>] }

\* the generator of a new SemanticAliasGenerator (__init__), and after reset()
NewGenerator == [counters |-> <<>>, used_aliases |-> <<>>]

\* _get_counter: the incremented count with the updated generator
get_counter(gen, entity_type) ==
    LET count == IF entity_type \in DOMAIN gen.counters
                 THEN gen.counters[entity_type] + 1 ELSE 1
    IN [value |-> count,
        gen |-> [gen EXCEPT !.counters =
                    [t \in DOMAIN gen.counters \cup {entity_type} |->
                        IF t = entity_type THEN count ELSE gen.counters[t]]]]

\* a loop that is never entered: the generated alias is returned as it is
FirstFreeUnguarded(used, original_alias, alias, counter) == alias

\* the while loop of _ensure_unique: the first free spelling among
\* alias, alias_1, alias_2, ...
RECURSIVE FirstFree(_, _, _, _)
FirstFree(used, original_alias, alias, counter) ==
    IF alias \in used
    THEN FirstFree(used, original_alias, original_alias \o <<"_">> \o IntToStr(counter), counter + 1)
    ELSE alias

\* _ensure_unique: the unique alias with the updated generator
ensure_unique(gen, alias, entity_type) ==
    LET used == IF entity_type \in DOMAIN gen.used_aliases
                THEN gen.used_aliases[entity_type] ELSE {}
        unique == FirstFree(used, alias, alias, 1)
    IN [value |-> unique,
        gen |-> [gen EXCEPT !.used_aliases =
                    [t \in DOMAIN gen.used_aliases \cup {entity_type} |->
                        IF t = entity_type THEN used \cup {unique} ELSE gen.used_aliases[t]]]]

generate_company_name(gen, draw) ==
    ensure_unique(gen,
        Upper(company_prefixes[draw.first] \o <<"_">> \o company_suffixes[draw.second]), K_COMPANY)

generate_person_name(gen, draw) ==
    ensure_unique(gen,
        Upper(first_names[draw.first] \o <<"_">> \o last_names[draw.second]), K_PERSON)

generate_product_name(gen, draw) ==
    ensure_unique(gen,
        Upper(product_prefixes[draw.first] \o product_types[draw.second]), K_PRODUCT)

generate_location_name(gen) ==
    LET c == get_counter(gen, K_LOCATION)
    IN [value |-> <<"L","O","C","A","T","I","O","N","_">> \o IntToStr(c.value), gen |-> c.gen]

\* generate_alias(entity_type): the alias with the updated generator
generate_alias(gen, entity_type, draw) ==
    LET et == Upper(entity_type)
    IN IF et \in { <<"O","R","G">>, <<"O","R","G","A","N","I","Z","A","T","I","O","N">>, <<"C","O","M","P","A","N","Y">> } THEN generate_company_name(gen, draw)
       ELSE IF et \in { <<"P","E","R","S","O","N">>, <<"N","A","M","E">>, <<"P","E","R">> } THEN generate_person_name(gen, draw)
       ELSE IF et = <<"P","R","O","D","U","C","T">> THEN generate_product_name(gen, draw)
       ELSE IF et \in { <<"G","P","E">>, <<"L","O","C","A","T","I","O","N">>, <<"L","O","C">> } THEN generate_location_name(gen)
       ELSE LET c == get_counter(gen, et)
            IN ensure_unique(c.gen, et \o <<"_">> \o IntToStr(c.value), et)

\* ------------------------------------------------------------------------
\* PIIManager
\* ------------------------------------------------------------------------
Managers == {"A", "B"}

VARIABLES
    pii_map,               \* [m]: self.pii_map, original -> placeholder
    reverse_map,           \* [m]: self.reverse_map, placeholder -> original
    alias_generator,       \* [m]: _counters and _used_aliases of self.alias_generator
    use_semantic_aliases,  \* [m]: self.use_semantic_aliases
    use_ner,               \* [m]: self.use_ner
    mapping_file,          \* the JSON file written by save_mapping
    document,              \* the text last given to anonymize_text, with its result
    restored,              \* [m]: the argument and the result of the last restore_text
    last_ops,              \* [m]: history, the names of the last two calls
    requests,              \* [m]: history, the number of calls of _create_placeholder
    ops,                   \* history: the number of calls made
    allocated_type,        \* [m]: history, the pii_type each placeholder was allocated for
    draws_made,            \* [m]: history, the number of nonces drawn and aliases generated
    saved,                 \* history: the maps of the saving manager at the last save_mapping
    loaded,                \* [m]: history, the value of saved at the last load_mapping
    generated,             \* history: the aliases generate_alias returned, with their types
    construction,          \* history: the arguments of PIIManager() and how loading spaCy went
    outcome,               \* the argument and the result of the last call of a single-call specification
    processor              \* the DocumentProcessor: handlers, input directory, results

vars == <<pii_map, reverse_map, alias_generator, use_semantic_aliases, use_ner,
          mapping_file, document, restored, last_ops, requests, ops, allocated_type,
          draws_made, saved, loaded, generated, construction, outcome, processor>>

\* a dict as a function, updated at one key (d[k] = v)
DictSet(d, k, v) == [x \in DOMAIN d \cup {k} |-> IF x = k THEN v ELSE d[x]]

\* a list of semantic types that has the type of a pattern in it
SemanticTypesAndDate ==
    { T_ORGANIZATION, <<"P","E","R","S","O","N">>, T_NAME, T_PRODUCT, T_LOCATION, T_DATE }

\* the types _create_placeholder asks the alias generator for
SemanticTypes == { T_ORGANIZATION, <<"P","E","R","S","O","N">>, T_NAME, T_PRODUCT, T_LOCATION }

\* f"<{pii_type}_{uuid.uuid4().hex[:8]}>"
OpaquePlaceholder(pii_type, nonce) == <<"<">> \o pii_type \o <<"_">> \o nonce \o <<">">>

\* an allocator that keeps one value per entity type in the forward map: the
\* values whose placeholder was allocated for pii_type are dropped
allocate_placeholder_evicting(st, original, pii_type) ==
    LET draw == Head(st.draws)
        made == IF st.semantic /\ pii_type \in SemanticTypes
                THEN generate_alias(st.gen, pii_type, draw)
                ELSE [value |-> OpaquePlaceholder(pii_type, draw.nonce), gen |-> st.gen]
        kept == {v \in DOMAIN st.pii_map :
                    \/ st.pii_map[v] \notin DOMAIN st.allocated_type
                    \/ st.allocated_type[st.pii_map[v]] # pii_type}
    IN [st EXCEPT
          !.pii_map = DictSet([v \in kept |-> st.pii_map[v]], original, made.value),
          !.reverse_map = DictSet(st.reverse_map, made.value, original),
          !.gen = made.gen,
          !.draws = Tail(st.draws),
          !.placeholder = made.value,
          !.allocated_type = DictSet(st.allocated_type, made.value, pii_type),
          !.draws_made = st.draws_made + 1]

\* The allocator state threaded through one detect_pii_in_text call:
\*   pii_map, reverse_map, gen: the manager's maps and generator
\*   semantic: use_semantic_aliases and alias_generator
\*   draws: the outcomes of the random draws still to come
\*   placeholder: the value returned by the last _create_placeholder
\*   allocated_type, draws_made: history
\* the allocation of _create_placeholder: a new placeholder, registered in
\* both maps
allocate_placeholder(st, original, pii_type) ==
    LET draw == Head(st.draws)
        made == IF st.semantic /\ pii_type \in SemanticTypes
                THEN generate_alias(st.gen, pii_type, draw)
                ELSE [value |-> OpaquePlaceholder(pii_type, draw.nonce), gen |-> st.gen]
    IN [st EXCEPT
          !.pii_map = DictSet(st.pii_map, original, made.value),
          !.reverse_map = DictSet(st.reverse_map, made.value, original),
          !.gen = made.gen,
          !.draws = Tail(st.draws),
          !.placeholder = made.value,
          !.allocated_type = DictSet(st.allocated_type, made.value, pii_type),
          !.draws_made = st.draws_made + 1]

\* an allocator that does not look the value up first
create_placeholder_unchecked(st, original, pii_type) ==
    allocate_placeholder(st, original, pii_type)

\* an allocator that reuses the placeholder of a value only for the type it
\* was allocated for
create_placeholder_per_type(st, original, pii_type) ==
    IF original \in DOMAIN st.pii_map
       /\ st.allocated_type[st.pii_map[original]] = pii_type
    THEN [st EXCEPT !.placeholder = st.pii_map[original]]
    ELSE allocate_placeholder(st, original, pii_type)

\* _create_placeholder(original, pii_type)
create_placeholder(st, original, pii_type) ==
    IF original \in DOMAIN st.pii_map
    THEN [st EXCEPT !.placeholder = st.pii_map[original]]
    ELSE allocate_placeholder(st, original, pii_type)

\* s.strip()
RECURSIVE Strip(_)
Strip(s) ==
    IF s = <<>> THEN s
    ELSE IF Head(s) \in SpaceChars THEN Strip(Tail(s))
    ELSE IF s[Len(s)] \in SpaceChars THEN Strip(SubSeq(s, 1, Len(s) - 1))
    ELSE s

\* the (value, type) pairs detect_pii_in_text allocates for, in order: the
\* pattern matches, then the entities of at least 2 characters after strip
RECURSIVE KeepLongEntities(_)
KeepLongEntities(entities) ==
    IF entities = <<>> THEN <<>>
    ELSE (IF Len(Strip(Head(entities).text)) < 2 THEN <<>>
          ELSE <<[value |-> Head(entities).text, type |-> Head(entities).type]>>)
         \o KeepLongEntities(Tail(entities))

Candidates(text, ner, ents) ==
    PatternDetections(text)
    \o (IF ner THEN KeepLongEntities(detect_entities_with_ner(text, ents)) ELSE <<>>)

\* the two loops of detect_pii_in_text: st with detections, the list of
\* (original, pii_type, placeholder)
RECURSIVE AllocateAll(_, _, _)
AllocateAll(st, cands, detections) ==
    IF cands = <<>> THEN [st |-> st, detections |-> detections]
    ELSE LET c == Head(cands)
             st2 == create_placeholder(st, c.value, c.type)
         IN AllocateAll(st2, Tail(cands),
                Append(detections, [original |-> c.value, pii_type |-> c.type,
                                    placeholder |-> st2.placeholder]))

\* detect_pii_in_text on a text whose matches are cands
detect_pii_in_text(st, cands) == AllocateAll(st, cands, <<>>)

\* the characters of the model in the order of their code points, the order
\* in which Python compares the characters of two str
CodePointOrder ==
    << "\t", "\n", "\r", " ", "#", "&", "'", ",", "-", ".", "/",
       "0", "1", "2", "3", "4", "5", "6", "7", "8", "9", ":", "<", ">",
       "A", "B", "C", "D", "E", "F", "G", "H", "I", "J", "K", "L", "M",
       "N", "O", "P", "Q", "R", "S", "T", "U", "V", "W", "X", "Y", "Z", "_",
       "a", "b", "c", "d", "e", "f", "g", "h", "i", "j", "k", "l", "m",
       "n", "o", "p", "q", "r", "s", "t", "u", "v", "w", "x", "y", "z", "À", "ÿ" >>
Ord(c) == CHOOSE k \in 1..Len(CodePointOrder) : CodePointOrder[k] = c

\* a > b on two str: the first character that differs decides, and a str is
\* greater than each of its proper prefixes
RECURSIVE StrGreater(_, _)
StrGreater(a, b) ==
    IF a = <<>> THEN FALSE
    ELSE IF b = <<>> THEN TRUE
    ELSE IF Head(a) # Head(b) THEN Ord(Head(a)) > Ord(Head(b))
    ELSE StrGreater(Tail(a), Tail(b))

\* a sort of text_indices in ascending order
TupleLess(a, b) ==
    \/ a.position < b.position
    \/ a.position = b.position /\ StrGreater(b.original, a.original)

\* a > b on two tuples (position, original, placeholder), the order of
\* text_indices.sort(reverse=True)
TupleGreater(a, b) ==
    \/ a.position > b.position
    \/ a.position = b.position /\ StrGreater(a.original, b.original)
    \/ a.position = b.position /\ a.original = b.original
          /\ StrGreater(a.placeholder, b.placeholder)

RECURSIVE SortReverse(_)
SortReverse(ts) ==
    IF ts = <<>> THEN <<>>
    ELSE LET j == CHOOSE k \in 1..Len(ts) : \A l \in 1..Len(ts) : ~TupleGreater(ts[l], ts[k])
         IN <<ts[j]>> \o SortReverse(SubSeq(ts, 1, j - 1) \o SubSeq(ts, j + 1, Len(ts)))

\* the replacement loop of anonymize_text
RECURSIVE ReplaceAll(_, _)
ReplaceAll(cur, ts) ==
    IF ts = <<>> THEN cur
    ELSE ReplaceAll(Replace(cur, Head(ts).original, Head(ts).placeholder), Tail(ts))

\* text_indices of anonymize_text: one (position, original, placeholder)
\* per detection, the position being text.find(original)
text_indices(text, detections) ==
    [k \in 1..Len(detections) |->
        [position |-> Find(text, detections[k].original),
         original |-> detections[k].original,
         placeholder |-> detections[k].placeholder]]

\* anonymize_text after detection: the substituted text
Substitute(text, detections) ==
    ReplaceAll(text, SortReverse(text_indices(text, detections)))

\* json.dump of a str -> str dict: an object, a set of "key": "value" members
JsonObject(d) == {<<k, d[k]>> : k \in DOMAIN d}
\* the dict json.load builds from an object
JsonDict(obj) == [k \in {mem[1] : mem \in obj} |-> (CHOOSE mem \in obj : mem[1] = k)[2]]
\* the document save_mapping writes
MappingData(pm, rm) ==
    [pii_to_placeholder |-> JsonObject(pm), placeholder_to_pii |-> JsonObject(rm)]
\* a load that reads the forward object for both maps
LoadedReverseFromForward(data) ==
    IF "pii_to_placeholder" \in DOMAIN data THEN JsonDict(data.pii_to_placeholder) ELSE <<>>

\* a loader that builds the forward map from the reverse object of the file
LoadedForwardFromReverse(data) ==
    IF "placeholder_to_pii" \in DOMAIN data
    THEN LET rev == JsonDict(data.placeholder_to_pii)
         IN [o \in {rev[p] : p \in DOMAIN rev} |-> CHOOSE p \in DOMAIN rev : rev[p] = o]
    ELSE <<>>

\* a loader that, when the reverse object is missing, inverts the forward one
LoadedReverseOrInverted(data) ==
    IF "placeholder_to_pii" \in DOMAIN data THEN JsonDict(data.placeholder_to_pii)
    ELSE IF "pii_to_placeholder" \in DOMAIN data
    THEN LET fwd == JsonDict(data.pii_to_placeholder)
         IN [p \in {fwd[o] : o \in DOMAIN fwd} |-> CHOOSE o \in DOMAIN fwd : fwd[o] = p]
    ELSE <<>>

\* mapping_data.get(key, {}) of load_mapping
LoadedForward(data) ==
    IF "pii_to_placeholder" \in DOMAIN data THEN JsonDict(data.pii_to_placeholder) ELSE <<>>
LoadedReverse(data) ==
    IF "placeholder_to_pii" \in DOMAIN data THEN JsonDict(data.placeholder_to_pii) ELSE <<>>

\* what nlp(text) can return: no entity, or one entity on one word of the
\* text with one of the labels below
NerLabels == { L_GPE }
WordSpans(text) ==
    {<<a, b>> \in (0..Len(text)) \X (0..Len(text)) :
        /\ a < b
        /\ \A k \in a..(b - 1) : At(text, k) # " "
        /\ At(text, a - 1) \in {"", " "}
        /\ At(text, b) \in {"", " "}}
NerOutcomes(text) ==
    {<<>>} \cup {<<[start |-> sp[1], end |-> sp[2], label |-> l]>> :
                    sp \in WordSpans(text), l \in NerLabels}

\* Candidates on every text of the model, for both values of use_ner and
\* every outcome of nlp(text)
DetectionTable ==
    [text \in Texts |-> [ner \in BOOLEAN |-> [ents \in NerOutcomes(text) |->
        Candidates(text, ner, ents)]]]

\* the allocator state of manager m at the start of a call
AllocatorState(m, draws) ==
    [pii_map |-> pii_map[m], reverse_map |-> reverse_map[m], gen |-> alias_generator[m],
     semantic |-> use_semantic_aliases[m], draws |-> draws, placeholder |-> <<>>,
     allocated_type |-> allocated_type[m], draws_made |-> draws_made[m]]

\* the call is added to the history, with the number of its calls of
\* _create_placeholder
Called(m, name, n) ==
    /\ last_ops' = [last_ops EXCEPT ![m] = <<last_ops[m][2], name>>]
    /\ requests' = [requests EXCEPT ![m] = requests[m] + n]
    /\ ops' = ops + 1

StoreAllocator(m, st) ==
    /\ pii_map' = [pii_map EXCEPT ![m] = st.pii_map]
    /\ reverse_map' = [reverse_map EXCEPT ![m] = st.reverse_map]
    /\ alias_generator' = [alias_generator EXCEPT ![m] = st.gen]
    /\ allocated_type' = [allocated_type EXCEPT ![m] = st.allocated_type]
    /\ draws_made' = [draws_made EXCEPT ![m] = st.draws_made]

NoDocument == [exists |-> FALSE, by |-> "A", text |-> <<>>, detections |-> <<>>,
               anonymized |-> <<>>]
NoFile == [exists |-> FALSE, data |-> <<>>]
NotSaved == [exists |-> FALSE, by |-> "A", pii_map |-> <<>>, reverse_map |-> <<>>,
             allocated_type |-> <<>>, document |-> NoDocument]
NotRestored == [of |-> <<>>, text |-> <<>>]
NoOutcome == [call |-> "none"]
\* DocumentProcessor(pii_manager): no handler, and no batch processed yet
NoProcessor ==
    [handlers |-> <<>>, listing |-> <<>>, action |-> "none",
     results |-> [successful |-> <<>>, failed |-> <<>>], events |-> <<>>]

\* what loading the spaCy model in __init__ does
SpacyOutcomes == { "loaded", "OSError", "ImportError" }

\* a constructor that keeps use_ner when the model could not be loaded
construct_keeping_flag(use_ner_arg, spacy) ==
    [use_ner |-> use_ner_arg,
     nlp |-> IF use_ner_arg /\ spacy = "loaded" THEN "model" ELSE "None"]

\* the NER part of __init__: self.use_ner and self.nlp
construct(use_ner_arg, spacy) ==
    IF use_ner_arg
    THEN IF spacy = "loaded"
         THEN [use_ner |-> TRUE, nlp |-> "model"]
         ELSE [use_ner |-> FALSE, nlp |-> "None"]
    ELSE [use_ner |-> FALSE, nlp |-> "None"]

\* PIIManager() for both managers, with the same switches, where loading
\* the spaCy model does one of outcomes
Constructed(outcomes) ==
    /\ pii_map = [m \in Managers |-> <<>>]
    /\ reverse_map = [m \in Managers |-> <<>>]
    /\ alias_generator = [m \in Managers |-> NewGenerator]
    /\ \E b \in BOOLEAN : use_semantic_aliases = [m \in Managers |-> b]
    /\ \E use_ner_arg \in BOOLEAN, spacy \in outcomes :
          /\ use_ner = [m \in Managers |-> construct(use_ner_arg, spacy).use_ner]
          /\ construction = [use_ner_arg |-> use_ner_arg,
                             spacy |-> IF use_ner_arg THEN spacy ELSE "not tried",
                             nlp |-> construct(use_ner_arg, spacy).nlp]
    /\ mapping_file = NoFile
    /\ document = NoDocument
    /\ restored = [m \in Managers |-> NotRestored]
    /\ last_ops = [m \in Managers |-> <<"init", "init">>]
    /\ requests = [m \in Managers |-> 0]
    /\ ops = 0
    /\ allocated_type = [m \in Managers |-> <<>>]
    /\ draws_made = [m \in Managers |-> 0]
    /\ saved = NotSaved
    /\ loaded = [m \in Managers |-> NotSaved]
    /\ generated = <<>>
    /\ outcome = NoOutcome
    /\ processor = NoProcessor

\* the managers of a system where the spaCy model is installed
Init == Constructed({ "loaded" })

\* Manager B is the manager that is constructed to load a saved mapping: its
\* first call is load_mapping.  A manager that starts a session of its own is A.
InUse(m) == m = "A" \/ loaded[m].exists

\* m.detect_pii_in_text(text) for a text of texts; every call of
\* _create_placeholder has its own outcome of the random draws at hand
DetectIn(m, texts) ==
    /\ \E text \in texts :
       \E ents \in (IF use_ner[m] THEN NerOutcomes(text) ELSE {<<>>}) :
       LET cands == DetectionTable[text][use_ner[m]][ents]
       IN \E draws \in [1..Len(cands) -> DrawSet] :
          /\ StoreAllocator(m, detect_pii_in_text(AllocatorState(m, draws), cands).st)
          /\ Called(m, "detect", Len(cands))
    /\ UNCHANGED <<use_semantic_aliases, use_ner, mapping_file, document, restored,
                   saved, loaded, generated, construction, outcome, processor>>

\* m.anonymize_text(text) for a text of texts
AnonymizeIn(m, texts) ==
    /\ \E text \in texts :
       \E ents \in (IF use_ner[m] THEN NerOutcomes(text) ELSE {<<>>}) :
       LET cands == DetectionTable[text][use_ner[m]][ents]
       IN \E draws \in [1..Len(cands) -> DrawSet] :
          LET r == detect_pii_in_text(AllocatorState(m, draws), cands)
          IN /\ StoreAllocator(m, r.st)
             /\ document' = [exists |-> TRUE, by |-> m, text |-> text,
                             detections |-> r.detections,
                             anonymized |-> Substitute(text, r.detections)]
             /\ Called(m, "anonymize", Len(cands))
    /\ UNCHANGED <<use_semantic_aliases, use_ner, mapping_file, restored, saved,
                   loaded, generated, construction, outcome, processor>>

\* m.restore_text(document.anonymized)
RestoreDocument(m) ==
    /\ document.exists
    /\ restored' = [restored EXCEPT ![m] =
                       [of |-> document.anonymized,
                        text |-> restore_text(reverse_map[m], document.anonymized)]]
    /\ Called(m, "restore", 0)
    /\ UNCHANGED <<pii_map, reverse_map, alias_generator, use_semantic_aliases, use_ner,
                   mapping_file, document, allocated_type, draws_made, saved, loaded,
                   generated, construction, outcome, processor>>

\* The texts of the calls of Spec: a word the DATE pattern matches, a word
\* only the external NER can label, and a word the classifier detects by
\* itself.  The texts of several words are the inputs of SpecRoundTrip.
SessionTexts == { <<"M","a","y">>, <<"m","a","y">>, <<"D","A","T","E">> }

Detect(m) == ops < MaxOps /\ InUse(m) /\ DetectIn(m, SessionTexts)
Anonymize(m) == ops < MaxOps /\ InUse(m) /\ AnonymizeIn(m, SessionTexts)
Restore(m) == ops < MaxOps /\ InUse(m) /\ RestoreDocument(m)

\* m.save_mapping(filename)
Save(m) ==
    /\ ops < MaxOps /\ InUse(m)
    /\ mapping_file' = [exists |-> TRUE, data |-> MappingData(pii_map[m], reverse_map[m])]
    /\ saved' = [exists |-> TRUE, by |-> m, pii_map |-> pii_map[m],
                 reverse_map |-> reverse_map[m], allocated_type |-> allocated_type[m],
                 document |-> document]
    /\ Called(m, "save", 0)
    /\ UNCHANGED <<pii_map, reverse_map, alias_generator, use_semantic_aliases, use_ner,
                   document, restored, allocated_type, draws_made, loaded, generated,
                   construction, outcome, processor>>

\* m.load_mapping(filename) of the file written by save_mapping
Load(m) ==
    /\ ops < MaxOps
    /\ mapping_file.exists
    /\ pii_map' = [pii_map EXCEPT ![m] = LoadedForward(mapping_file.data)]
    /\ reverse_map' = [reverse_map EXCEPT ![m] = LoadedReverse(mapping_file.data)]
    /\ allocated_type' = [allocated_type EXCEPT ![m] = saved.allocated_type]
    /\ loaded' = [loaded EXCEPT ![m] = saved]
    /\ Called(m, "load", 0)
    /\ UNCHANGED <<alias_generator, use_semantic_aliases, use_ner, mapping_file,
                   document, restored, draws_made, saved, generated,
                   construction, outcome, processor>>

Next == \E m \in Managers : Detect(m) \/ Anonymize(m) \/ Restore(m) \/ Save(m) \/ Load(m)

Spec == Init /\ [][Next]_vars

\* ------------------------------------------------------------------------
\* One anonymize_text of any text of up to MaxWords words, then restore_text
\* of its result, on one manager
\* ------------------------------------------------------------------------
AnonymizeText == ops = 0 /\ AnonymizeIn("A", Texts)
RestoreText == ops = 1 /\ RestoreDocument("A")
NextRoundTrip == AnonymizeText \/ RestoreText
SpecRoundTrip == Init /\ [][NextRoundTrip]_vars

\* ------------------------------------------------------------------------
\* SemanticAliasGenerator on its own: generate_alias and reset
\* ------------------------------------------------------------------------
\* the entity types of the four semantic kinds, as _create_placeholder passes them
AliasTypes == { T_ORGANIZATION, <<"P","E","R","S","O","N">>, T_NAME, T_PRODUCT, T_LOCATION }

\* generate_alias(entity_type) on the generator of manager A
GenerateAlias ==
    /\ Len(generated) < MaxGen
    /\ \E entity_type \in AliasTypes, draw \in DrawSet :
          LET made == generate_alias(alias_generator["A"], entity_type, draw)
          IN /\ alias_generator' = [alias_generator EXCEPT !["A"] = made.gen]
             /\ generated' = Append(generated, [type |-> entity_type, alias |-> made.value])
    /\ UNCHANGED <<pii_map, reverse_map, use_semantic_aliases, use_ner, mapping_file,
                   document, restored, last_ops, requests, ops, allocated_type, draws_made,
                   saved, loaded, construction, outcome, processor>>

\* reset()
Reset ==
    /\ generated # <<>>
    /\ alias_generator' = [alias_generator EXCEPT !["A"] = NewGenerator]
    /\ generated' = <<>>
    /\ UNCHANGED <<pii_map, reverse_map, use_semantic_aliases, use_ner, mapping_file,
                   document, restored, last_ops, requests, ops, allocated_type, draws_made,
                   saved, loaded, construction, outcome, processor>>

NextAlias == GenerateAlias \/ Reset
SpecAlias == Init /\ [][NextAlias]_vars

\* ------------------------------------------------------------------------
\* Operators of the properties
\* ------------------------------------------------------------------------
\* EvalRunner.evaluate_leakage on one value:
\* re.search(r'\b' + re.escape(pii_text) + r'\b', anonymized_text, re.IGNORECASE)
LeaksIn(pii_text, anonymized_text) ==
    \E i \in 0..(Len(anonymized_text) - Len(pii_text)) :
        /\ Boundary(anonymized_text, i)
        /\ StartsAt(Lower(anonymized_text), Lower(pii_text), i)
        /\ Boundary(anonymized_text, i + Len(pii_text))

\* the Pii Types: the names of the pattern catalog and the types of the
\* entity classifier
PiiTypes ==
    { <<"E","M","A","I","L">>, <<"P","H","O","N","E">>, <<"S","S","N">>, <<"C","R","E","D","I","T","_","C","A","R","D">>, T_IP_ADDRESS, T_DATE, <<"A","D","D","R","E","S","S">>,
      <<"U","R","L">>, <<"C","U","R","R","E","N","C","Y">>, T_NAME, T_ORGANIZATION, T_PRODUCT, T_LOCATION }

\* the generator generate_alias dispatches an entity type of AliasTypes to
AliasKind(entity_type) ==
    IF entity_type = T_ORGANIZATION THEN K_COMPANY
    ELSE IF entity_type \in { <<"P","E","R","S","O","N">>, T_NAME } THEN K_PERSON
    ELSE IF entity_type = T_PRODUCT THEN K_PRODUCT
    ELSE K_LOCATION

\* sum(stats[k] for k in keys)
RECURSIVE SumOver(_, _)
SumOver(stats, keys) ==
    IF keys = {} THEN 0
    ELSE LET k == CHOOSE x \in keys : TRUE
         IN stats[k] + SumOver(stats, keys \ {k})

\* both directions of "pii_map[v] = p if and only if reverse_map[p] = v"
Inverses(pm, rm) ==
    /\ \A v \in DOMAIN pm : pm[v] \in DOMAIN rm /\ rm[pm[v]] = v
    /\ \A p \in DOMAIN rm : rm[p] \in DOMAIN pm /\ pm[rm[p]] = p

\* ------------------------------------------------------------------------
\* Properties
\* ------------------------------------------------------------------------
\* C1: round trip with one manager.  When a manager restores the text it has
\* just produced with anonymize_text, with no call of its own in between, the
\* result is the text that was given to anonymize_text.
C1_RoundTrip ==
    \A m \in Managers :
        (/\ last_ops[m] = <<"anonymize", "restore">>
         /\ document.by = m
         /\ restored[m].of = document.anonymized)
        => restored[m].text = document.text

\* C2: round trip across persistence.  Right after load_mapping the maps of
\* the loading manager are the maps the saving manager had at save_mapping,
\* and a restore_text that follows the load returns what the saving manager's
\* reverse map of that moment gives on the same text (so it returns the
\* original text whenever that manager's own round trip does).
C2_PersistedRoundTrip ==
    \A m \in Managers :
        /\ last_ops[m][2] = "load" =>
              /\ pii_map[m] = loaded[m].pii_map
              /\ reverse_map[m] = loaded[m].reverse_map
        /\ last_ops[m] = <<"load", "restore">> =>
              restored[m].text = restore_text(loaded[m].reverse_map, restored[m].of)

\* C2 happens: B has loaded the mapping A saved after anonymizing a text with
\* a detected value, and B's restore_text of A's output gives A's input back.
C2_Witness ==
    /\ last_ops["B"] = <<"load", "restore">>
    /\ loaded["B"].by = "A"
    /\ loaded["B"].document.exists
    /\ loaded["B"].reverse_map # <<>>
    /\ restored["B"].of = loaded["B"].document.anonymized
    /\ restored["B"].of # loaded["B"].document.text
    /\ restored["B"].text = loaded["B"].document.text

\* C3: no leakage.  No value detected in the text given to anonymize_text
\* occurs in the anonymized text between word boundaries, compared without
\* regard to case.
C3_NoLeakage ==
    document.exists =>
        \A k \in 1..Len(document.detections) :
            ~LeaksIn(document.detections[k].original, document.anonymized)

\* C4: in every state the forward map and the reverse map of every manager
\* are mutual inverses.
C4_MutualInverses == \A m \in Managers : Inverses(pii_map[m], reverse_map[m])

\* C5: allocator uniqueness.  On a manager that has not loaded a mapping, two
\* distinct values never have the same placeholder.
C5_AllocatorUniqueness ==
    \A m \in Managers :
        ~loaded[m].exists =>
            \A v1, v2 \in DOMAIN pii_map[m] :
                v1 # v2 => pii_map[m][v1] # pii_map[m][v2]

\* C6: idempotent allocation.  A detect_pii_in_text or anonymize_text call
\* leaves the placeholder of every value that had one unchanged, reports that
\* placeholder for the value, makes exactly one random draw per value that
\* had none, and leaves the alias generator (used aliases and counters) as it
\* was when every detected value had a placeholder.
C6_IdempotentAllocation ==
    [][\A m \in Managers :
          last_ops'[m][2] \in {"detect", "anonymize"} =>
             /\ \A v \in DOMAIN pii_map[m] :
                   v \in DOMAIN pii_map'[m] /\ pii_map'[m][v] = pii_map[m][v]
             /\ draws_made'[m] - draws_made[m]
                   = Cardinality(DOMAIN pii_map'[m] \ DOMAIN pii_map[m])
             /\ DOMAIN pii_map'[m] = DOMAIN pii_map[m]
                   => alias_generator'[m] = alias_generator[m]
             /\ (document' # document /\ document'.by = m) =>
                   \A k \in 1..Len(document'.detections) :
                      LET d == document'.detections[k]
                      IN d.original \in DOMAIN pii_map[m]
                            => d.placeholder = pii_map[m][d.original]
      ]_vars

\* C6 happens: without NER every text of the session holds at most one value,
\* so two calls of _create_placeholder with one draw are two calls on the
\* same value, the second one in a later call.
C6_Witness ==
    /\ ~use_ner["A"]
    /\ ~loaded["A"].exists
    /\ requests["A"] = 2
    /\ draws_made["A"] = 1
    /\ Cardinality(DOMAIN pii_map["A"]) = 1

\* the generator state keeps the alias from being returned again: it is in
\* the used set of its kind, or it is LOCATION_n for an n the counter has passed
Recorded(gen, g) ==
    LET kind == AliasKind(g.type)
    IN IF kind = K_LOCATION
       THEN /\ K_LOCATION \in DOMAIN gen.counters
            /\ \E n \in 1..gen.counters[K_LOCATION] : g.alias = <<"L","O","C","A","T","I","O","N","_">> \o IntToStr(n)
       ELSE /\ kind \in DOMAIN gen.used_aliases
            /\ g.alias \in gen.used_aliases[kind]

\* C7: semantic alias uniqueness per type.  The aliases generate_alias has
\* returned since the last reset() for entity types of one kind are pairwise
\* distinct, whatever the draws were, and each of them is recorded in the
\* generator so that it cannot be returned again.
C7_AliasUniqueness ==
    /\ \A i, j \in 1..Len(generated) :
          (i < j /\ AliasKind(generated[i].type) = AliasKind(generated[j].type))
             => generated[i].alias # generated[j].alias
    /\ \A i \in 1..Len(generated) : Recorded(alias_generator["A"], generated[i])

\* C7 happens: the same words were drawn twice for one type, and the second
\* alias got the numeric suffix; a location alias was generated too.
C7_Witness ==
    /\ \E i, j \in 1..Len(generated) :
          /\ i < j
          /\ generated[i].type = generated[j].type
          /\ generated[j].alias = generated[i].alias \o <<"_","1">>
    /\ \E i \in 1..Len(generated) : generated[i].alias = <<"L","O","C","A","T","I","O","N","_","2">>

\* C8: statistics consistency.  get_statistics()['TOTAL'] is the sum of the
\* other counts, and the number of distinct values that have a placeholder.
C8_StatisticsConsistency ==
    \A m \in Managers :
        LET stats == get_statistics(pii_map[m], reverse_map[m])
        IN /\ stats[TOTAL] = SumOver(stats, DOMAIN stats \ {TOTAL})
           /\ stats[TOTAL] = Cardinality(DOMAIN pii_map[m])

\* C9: statistics per type.  The keys of get_statistics() are Pii Types and
\* TOTAL, and the count of a Pii Type is the number of placeholders of the
\* reverse map that were allocated for a value of that type.
C9_StatisticsPerType ==
    \A m \in Managers :
        LET stats == get_statistics(pii_map[m], reverse_map[m])
        IN /\ DOMAIN stats \subseteq PiiTypes \cup {TOTAL}
           /\ \A t \in PiiTypes :
                 (IF t \in DOMAIN stats THEN stats[t] ELSE 0)
                    = Cardinality({p \in DOMAIN reverse_map[m] : allocated_type[m][p] = t})

\* C10: resumed session.  On a manager with semantic aliasing that has loaded
\* a mapping, every entry of the loaded reverse map is still in the reverse
\* map, with the value it was loaded with.
C10_ResumedSession ==
    \A m \in Managers :
        (use_semantic_aliases[m] /\ loaded[m].exists) =>
            \A p \in DOMAIN loaded[m].reverse_map :
                /\ p \in DOMAIN reverse_map[m]
                /\ reverse_map[m][p] = loaded[m].reverse_map[p]


\* ------------------------------------------------------------------------
\* load_mapping of any mapping document: a session of manager A, with a
\* mapping file that save_mapping or another program writes
\* ------------------------------------------------------------------------
MappingKeys == { "pii_to_placeholder", "placeholder_to_pii" }

\* the str -> str dicts another program puts in the document: they need not
\* be inverses of each other
FileForward ==
    { <<>>, DictSet(<<>>, <<"M","a","y">>, <<"<","D","A","T","E","_","0","b","1","e","2","d","3","c",">">>) }
FileReverse ==
    { <<>>, DictSet(<<>>, <<"L","O","C","A","T","I","O","N","_","1">>, <<"D","A","T","E">>) }

\* a JSON object with any of the two keys is written to the mapping file
WriteFile ==
    /\ ops < MaxLoadOps
    /\ \E keys \in SUBSET MappingKeys, fwd \in FileForward, rev \in FileReverse :
          mapping_file' =
              [exists |-> TRUE,
               data |-> [k \in keys |-> IF k = "pii_to_placeholder"
                                        THEN JsonObject(fwd) ELSE JsonObject(rev)]]
    /\ saved' = NotSaved
    /\ UNCHANGED <<pii_map, reverse_map, alias_generator, use_semantic_aliases, use_ner,
                   document, restored, last_ops, requests, ops, allocated_type,
                   draws_made, loaded, generated, construction, outcome, processor>>

\* the calls of manager A in the session
SessionAnonymize == ops < MaxLoadOps /\ Anonymize("A")
SessionSave == ops < MaxLoadOps /\ Save("A")
SessionLoad == ops < MaxLoadOps /\ Load("A")

NextLoad == SessionAnonymize \/ SessionSave \/ WriteFile \/ SessionLoad
SpecLoad == Init /\ [][NextLoad]_vars

\* a step of SpecLoad that is a load_mapping of manager A
LoadStep == ops' = ops + 1 /\ last_ops'["A"][2] = "load"

\* C11: load_mapping replaces both maps wholesale.  After a load of a
\* document with both keys, pii_map and reverse_map are exactly the file's
\* pii_to_placeholder and placeholder_to_pii, no entry that was in memory and
\* is not in the file is left, and the counters and used-alias sets of the
\* alias generator are what they were.
C11_LoadReplaces ==
    [][(LoadStep /\ DOMAIN mapping_file.data = MappingKeys) =>
          /\ JsonObject(pii_map'["A"]) = mapping_file.data.pii_to_placeholder
          /\ JsonObject(reverse_map'["A"]) = mapping_file.data.placeholder_to_pii
          /\ JsonObject(pii_map'["A"])
                \cap (JsonObject(pii_map["A"]) \ mapping_file.data.pii_to_placeholder) = {}
          /\ JsonObject(reverse_map'["A"])
                \cap (JsonObject(reverse_map["A"]) \ mapping_file.data.placeholder_to_pii) = {}
          /\ alias_generator' = alias_generator]_vars

\* a load of a written document with both keys, not inverses of each other,
\* by a manager that had allocated an alias for a value the file does not have
C11_Witness ==
    /\ last_ops["A"] = <<"anonymize", "load">>
    /\ DOMAIN mapping_file.data = MappingKeys
    /\ ~saved.exists
    /\ alias_generator["A"] # NewGenerator
    /\ pii_map["A"] # <<>>
    /\ reverse_map["A"] # <<>>
    /\ ~Inverses(pii_map["A"], reverse_map["A"])
    /\ \E k \in 1..Len(document.detections) :
          document.detections[k].original \notin DOMAIN pii_map["A"]

\* C12: a mapping document that lacks pii_to_placeholder and/or
\* placeholder_to_pii is loaded without failure: each map whose key is
\* missing is the empty map, and the map whose key is present is the file's.
C12_MissingKeys ==
    [][(LoadStep /\ DOMAIN mapping_file.data # MappingKeys) =>
          /\ IF "pii_to_placeholder" \in DOMAIN mapping_file.data
             THEN JsonObject(pii_map'["A"]) = mapping_file.data.pii_to_placeholder
             ELSE pii_map'["A"] = <<>>
          /\ IF "placeholder_to_pii" \in DOMAIN mapping_file.data
             THEN JsonObject(reverse_map'["A"]) = mapping_file.data.placeholder_to_pii
             ELSE reverse_map'["A"] = <<>>]_vars

\* a load of a document with the forward object alone, by a manager whose
\* maps were not empty
C12_Witness ==
    /\ last_ops["A"] = <<"anonymize", "load">>
    /\ DOMAIN mapping_file.data = { "pii_to_placeholder" }
    /\ pii_map["A"] # <<>>
    /\ reverse_map["A"] = <<>>
    /\ document.detections # <<>>

\* ------------------------------------------------------------------------
\* The text methods of one manager, called with any value, where loading
\* the spaCy model and calling it can fail
\* ------------------------------------------------------------------------
\* Python values: a type name and the characters or the items
PyStr(text) == [type |-> "str", value |-> text]
PyBytes(text) == [type |-> "bytes", value |-> text]
PyList(items) == [type |-> "list", value |-> items]
PyNone == [type |-> "NoneType", value |-> <<>>]
\* what a call that raises returns
Nothing == [type |-> "nothing", value |-> <<>>]

\* a guard that takes bytes for text
isinstance_str_or_bytes(x) == x.type \in { "str", "bytes" }

\* isinstance(text, str)
isinstance_str(x) == x.type = "str"

\* the values that are not text
NonText == { PyNone, PyBytes(<<"M","a","y">>) }

\* the words of the texts given to restore_text: an opaque token of one of
\* the nonces, the aliases the generator makes first, a plain word, and an
\* alias with the opaque token right after it
RestoreVocabulary ==
    { <<"<","D","A","T","E","_","0","b","1","e","2","d","3","c",">">>, <<"L","O","C","A","T","I","O","N","_","1">>, <<"A","C","M","E","_","C","O","R","P">>, <<"m","a","y">>,
      <<"A","C","M","E","_","C","O","R","P","<","D","A","T","E","_","0","b","1","e","2","d","3","c",">">> }
RestoreTexts == UNION {{Join(ws) : ws \in [1..n -> RestoreVocabulary]} : n \in 1..MaxWords}

\* what self.nlp(text) does in a call: it raises, or it returns entities
NlpResults(x, flags) ==
    IF isinstance_str(x) /\ flags.use_ner /\ flags.nlp # "None"
    THEN {[raises |-> TRUE, ents |-> <<>>]}
         \cup {[raises |-> FALSE, ents |-> ents] : ents \in NerOutcomes(x.value)}
    ELSE {[raises |-> FALSE, ents |-> <<>>]}

\* a detect_pii_in_text that calls nlp before its loop over the pattern
\* matches: nothing is allocated when nlp raises
call_candidates_ner_first(x, flags, result) ==
    IF ~isinstance_str(x) THEN <<>>
    ELSE IF flags.use_ner /\ flags.nlp # "None"
    THEN IF result.raises THEN <<>> ELSE DetectionTable[x.value][TRUE][result.ents]
    ELSE DetectionTable[x.value][FALSE][<<>>]

\* the (value, type) pairs _create_placeholder is called for in a
\* detect_pii_in_text(x): none for a value that is not text, the pattern
\* matches when nlp is not called or raises, else those and the entities
call_candidates(x, flags, result) ==
    IF ~isinstance_str(x) THEN <<>>
    ELSE IF flags.use_ner /\ flags.nlp # "None" /\ ~result.raises
    THEN DetectionTable[x.value][TRUE][result.ents]
    ELSE DetectionTable[x.value][FALSE][<<>>]

\* a detect_pii_in_text that catches the failure of nlp and returns the
\* pattern detections
detect_result_catching(d, runs, raises) ==
    [st |-> d.st,
     nlp |-> IF ~runs THEN "not called" ELSE IF raises THEN "raised" ELSE "returned",
     raised |-> FALSE, returned |-> PyList(d.detections), detections |-> d.detections]

\* the result of a detect_pii_in_text of a text, from d, the allocations of
\* its two loops: the call raises where self.nlp(text) does, after the loop
\* over the pattern matches
detect_result(d, runs, raises) ==
    IF runs /\ raises
    THEN [st |-> d.st, nlp |-> "raised", raised |-> TRUE, returned |-> Nothing,
          detections |-> d.detections]
    ELSE [st |-> d.st, nlp |-> IF runs THEN "returned" ELSE "not called",
          raised |-> FALSE, returned |-> PyList(d.detections),
          detections |-> d.detections]

\* detect_pii_in_text(x): the allocator state after the call, whether nlp was
\* called and what it did, whether the call raised, the value returned and
\* the list detections as the call built it
detect_call(st, x, flags, result) ==
    IF ~isinstance_str(x)
    THEN [st |-> st, nlp |-> "not called", raised |-> FALSE, returned |-> PyList(<<>>),
          detections |-> <<>>]
    ELSE detect_result(detect_pii_in_text(st, call_candidates(x, flags, result)),
                       flags.use_ner /\ flags.nlp # "None", result.raises)

\* anonymize_text of a text after d, its call of detect_pii_in_text
anonymize_result(d, text) ==
    IF d.raised THEN d
    ELSE [d EXCEPT !.returned = PyStr(Substitute(text, d.detections))]

\* anonymize_text(x)
anonymize_call(st, x, flags, result) ==
    IF ~isinstance_str(x)
    THEN [st |-> st, nlp |-> "not called", raised |-> FALSE, returned |-> x,
          detections |-> <<>>]
    ELSE anonymize_result(detect_call(st, x, flags, result), x.value)

\* restore_text(x)
restore_call(rm, x) ==
    IF ~isinstance_str(x) THEN x ELSE PyStr(restore_text(rm, x.value))

\* the values given to detect_pii_in_text and anonymize_text, and to restore_text
CallValues == {PyStr(text) : text \in SessionTexts} \cup NonText
RestoreValues == {PyStr(text) : text \in RestoreTexts} \cup NonText

Flags == [use_ner |-> use_ner["A"], nlp |-> construction.nlp]

\* the call is stored with its result
Returned(name, x, r) ==
    outcome' = [call |-> name, arg |-> x, nlp |-> r.nlp, raised |-> r.raised,
                returned |-> r.returned, detections |-> r.detections]

CallDetect ==
    /\ ops < MaxCalls
    /\ \E x \in CallValues :
       \E result \in NlpResults(x, Flags) :
       \E draws \in [1..Len(call_candidates(x, Flags, result)) -> DrawSet] :
          \E r \in {detect_call(AllocatorState("A", draws), x, Flags, result)} :
             /\ StoreAllocator("A", r.st)
             /\ Returned("detect_pii_in_text", x, r)
             /\ Called("A", "detect", Len(call_candidates(x, Flags, result)))
    /\ UNCHANGED <<use_semantic_aliases, use_ner, mapping_file, document, restored,
                   saved, loaded, generated, construction, processor>>

CallAnonymize ==
    /\ ops < MaxCalls
    /\ \E x \in CallValues :
       \E result \in NlpResults(x, Flags) :
       \E draws \in [1..Len(call_candidates(x, Flags, result)) -> DrawSet] :
          \E r \in {anonymize_call(AllocatorState("A", draws), x, Flags, result)} :
             /\ StoreAllocator("A", r.st)
             /\ Returned("anonymize_text", x, r)
             /\ Called("A", "anonymize", Len(call_candidates(x, Flags, result)))
    /\ UNCHANGED <<use_semantic_aliases, use_ner, mapping_file, document, restored,
                   saved, loaded, generated, construction, processor>>

CallRestore ==
    /\ ops < MaxCalls
    /\ \E x \in RestoreValues :
          Returned("restore_text", x,
                   [nlp |-> "not called", raised |-> FALSE,
                    returned |-> restore_call(reverse_map["A"], x), detections |-> <<>>])
    /\ Called("A", "restore", 0)
    /\ UNCHANGED <<pii_map, reverse_map, alias_generator, use_semantic_aliases, use_ner,
                   mapping_file, document, restored, allocated_type, draws_made, saved,
                   loaded, generated, construction, processor>>

NextCalls == CallDetect \/ CallAnonymize \/ CallRestore
SpecCalls == Constructed(SpacyOutcomes) /\ [][NextCalls]_vars

\* a step of SpecCalls is a call
CallStep == ops' = ops + 1
\* the maps and the allocator state of manager A are what they were
ManagerUnchanged ==
    /\ pii_map' = pii_map
    /\ reverse_map' = reverse_map
    /\ alias_generator' = alias_generator

\* C13: given a value that is not a string, anonymize_text and restore_text
\* return that value, detect_pii_in_text returns an empty list, none of them
\* raises, and the forward map, the reverse map and the allocator state are
\* what they were before the call.
C13_NonTextInput ==
    [][(CallStep /\ outcome'.arg.type # "str") =>
          /\ ~outcome'.raised
          /\ outcome'.call \in { "anonymize_text", "restore_text" }
                => outcome'.returned = outcome'.arg
          /\ outcome'.call = "detect_pii_in_text" => outcome'.returned = PyList(<<>>)
          /\ ManagerUnchanged]_vars

\* anonymize_text of bytes that spell a date, by a manager that has allocated
C13_Witness ==
    /\ outcome.call = "anonymize_text"
    /\ outcome.arg = PyBytes(<<"M","a","y">>)
    /\ outcome.returned = PyBytes(<<"M","a","y">>)
    /\ last_ops["A"] = <<"anonymize", "anonymize">>
    /\ pii_map["A"] # <<>>

\* C14: when the NER model or library cannot be loaded at construction, the
\* manager is constructed with use_ner = False, and every later
\* detect_pii_in_text and anonymize_text of a text returns without raising,
\* with the detections of the Pattern Catalog and none of the entity
\* classifier.
C14_NerUnavailable ==
    construction.spacy \in { "OSError", "ImportError" } =>
        /\ ~use_ner["A"]
        /\ (outcome.call \in { "detect_pii_in_text", "anonymize_text" }
                /\ outcome.arg.type = "str") =>
              /\ ~outcome.raised
              /\ outcome.nlp = "not called"
              /\ [k \in 1..Len(outcome.detections) |->
                     [value |-> outcome.detections[k].original,
                      type |-> outcome.detections[k].pii_type]]
                    = PatternDetections(outcome.arg.value)
              /\ outcome.call = "detect_pii_in_text"
                    => outcome.returned = PyList(outcome.detections)
              /\ outcome.call = "anonymize_text"
                    => outcome.returned
                          = PyStr(Substitute(outcome.arg.value, outcome.detections))

\* NER was asked for and the library is missing: a date is detected, and a
\* text the entity classifier would label is returned as it is
C14_Witness ==
    /\ construction.use_ner_arg
    /\ construction.spacy = "ImportError"
    /\ outcome.call = "anonymize_text"
    /\ outcome.arg = PyStr(<<"D","A","T","E">>)
    /\ outcome.returned = PyStr(<<"D","A","T","E">>)
    /\ \E v \in DOMAIN pii_map["A"] : allocated_type["A"][pii_map["A"][v]] = T_DATE

\* C15: when NER is enabled and the call of the NER model raises during
\* detect_pii_in_text or anonymize_text, the call raises: it returns neither
\* a detection list nor an anonymized text.
C15_NerFailurePropagates ==
    (outcome.call \in { "detect_pii_in_text", "anonymize_text" } /\ outcome.nlp = "raised") =>
        /\ outcome.raised
        /\ outcome.returned = Nothing

\* NER is enabled, the text has a date the patterns detect, and the NER call raises in
\* anonymize_text
C15_Witness ==
    /\ use_ner["A"]
    /\ outcome.call = "anonymize_text"
    /\ outcome.arg = PyStr(<<"M","a","y">>)
    /\ outcome.nlp = "raised"
    /\ outcome.detections # <<>>

\* what the replacements of the matches that end at or before offset s add
\* to the length of the text
RECURSIVE ShiftBefore(_, _, _)
ShiftBefore(ms, rm, s) ==
    IF ms = <<>> THEN 0
    ELSE (IF Head(ms).text \in DOMAIN rm /\ Head(ms).span[2] <= s
          THEN Len(rm[Head(ms).text]) - (Head(ms).span[2] - Head(ms).span[1])
          ELSE 0)
         + ShiftBefore(Tail(ms), rm, s)

\* C16: restore_text leaves a placeholder-shaped token that is not a key of
\* the reverse map unchanged at its position (its offset in the input, moved
\* by the replacements before it) and does not raise; with an empty reverse
\* map, or no token that is a key, it returns its input.
C16_UnmappedTokens ==
    (outcome.call = "restore_text" /\ outcome.arg.type = "str") =>
        LET text == outcome.arg.value
            rm == reverse_map["A"]
            out == outcome.returned.value
            ms == AllMatches(text)
        IN /\ ~outcome.raised
           /\ outcome.returned.type = "str"
           /\ rm = <<>> => out = text
           /\ (\A k \in 1..Len(ms) : ms[k].text \notin DOMAIN rm) => out = text
           /\ \A k \in 1..Len(ms) :
                 ms[k].text \notin DOMAIN rm
                    => Slice(out, ms[k].span[1] + ShiftBefore(ms, rm, ms[k].span[1]),
                                  ms[k].span[2] + ShiftBefore(ms, rm, ms[k].span[1]))
                          = ms[k].text

\* a text with an opaque token that is a key of the reverse map before an
\* alias that is not
C16_Witness ==
    /\ outcome.call = "restore_text"
    /\ outcome.arg = PyStr(<<"<","D","A","T","E","_","0","b","1","e","2","d","3","c",">"," ","A","C","M","E","_","C","O","R","P">>)
    /\ outcome.returned = PyStr(<<"M","a","y"," ","A","C","M","E","_","C","O","R","P">>)
    /\ reverse_map["A"] # <<>>

\* ------------------------------------------------------------------------
\* _create_placeholder on its own, for the types a detection can have
\* ------------------------------------------------------------------------
\* the type of a pattern of the catalog, the types of the entity classifier,
\* and the names of two custom patterns of PiiConfig(custom_patterns=...)
AllocationTypes ==
    { T_DATE, T_NAME, T_ORGANIZATION, T_PRODUCT, T_LOCATION, <<"P","E","R","S","O","N">>, <<"T","I","C","K","E","T">> }

\* _create_placeholder(original, pii_type) on manager A
CreatePlaceholder ==
    /\ ops < MaxAllocations
    /\ \E original \in SessionTexts, pii_type \in AllocationTypes, draw \in DrawSet :
          LET st == create_placeholder(AllocatorState("A", <<draw>>), original, pii_type)
          IN /\ StoreAllocator("A", st)
             /\ Returned("_create_placeholder", PyStr(original),
                         [nlp |-> "not called", raised |-> FALSE,
                          returned |-> PyStr(st.placeholder), detections |-> <<>>])
    /\ Called("A", "create", 1)
    /\ UNCHANGED <<use_semantic_aliases, use_ner, mapping_file, document, restored,
                   saved, loaded, generated, construction, processor>>

NextAllocate == CreatePlaceholder
SpecAllocate == Init /\ [][NextAllocate]_vars

\* an opaque token <TYPE_hex8> of type pii_type
IsOpaqueToken(p, pii_type) ==
    LET n == Len(pii_type)
    IN /\ Len(p) = n + 11
       /\ p[1] = "<"
       /\ SubSeq(p, 2, n + 1) = pii_type
       /\ p[n + 2] = "_"
       /\ \A k \in (n + 3)..(n + 10) : p[k] \in HexChars
       /\ p[n + 11] = ">"

\* an alias: upper-case words, digits and underscores
IsSemanticAlias(p) ==
    /\ p # <<>>
    /\ \A k \in 1..Len(p) : p[k] \in UpperChars \cup DigitChars \cup {"_"}

\* every allocated value has an alias when aliasing is enabled and its type
\* is in types, and else an opaque token of its type
FamilyBy(types) ==
    \A v \in DOMAIN pii_map["A"] :
       LET p == pii_map["A"][v]
           pii_type == allocated_type["A"][p]
       IN IF use_semantic_aliases["A"] /\ pii_type \in types
          THEN IsSemanticAlias(p)
          ELSE IsOpaqueToken(p, pii_type)

\* C17 as stated: a newly allocated value gets a semantic alias if and only if
\* semantic aliasing is enabled and its type is one of ORGANIZATION, NAME,
\* PRODUCT, LOCATION; in every other case it gets an opaque token <TYPE_hex8>
\* of the detection's type.
C17_FamilyAsStated ==
    FamilyBy({ T_ORGANIZATION, T_NAME, T_PRODUCT, T_LOCATION })

\* C17: a newly allocated value gets a semantic alias if and only if semantic
\* aliasing is enabled and its type is one of ORGANIZATION, PERSON, NAME,
\* PRODUCT, LOCATION; in every other case it gets an opaque token <TYPE_hex8>
\* of the detection's type.
C17_FamilySelection ==
    FamilyBy({ T_ORGANIZATION, <<"P","E","R","S","O","N">>, T_NAME, T_PRODUCT, T_LOCATION })

\* with aliasing enabled, a value of the custom type PERSON has an alias and
\* values of the types DATE and TICKET have opaque tokens
C17_Witness ==
    /\ use_semantic_aliases["A"]
    /\ \E v \in DOMAIN pii_map["A"] :
          /\ allocated_type["A"][pii_map["A"][v]] = <<"P","E","R","S","O","N">>
          /\ IsSemanticAlias(pii_map["A"][v])
    /\ \E v \in DOMAIN pii_map["A"] : allocated_type["A"][pii_map["A"][v]] = T_DATE
    /\ \E v \in DOMAIN pii_map["A"] : allocated_type["A"][pii_map["A"][v]] = <<"T","I","C","K","E","T">>

\* C20: every placeholder the allocator has minted (an opaque token, also of
\* a custom type, an alias, an alias with a numeric suffix, LOCATION_n) is
\* matched by the scan of restore_text: restore_text of the placeholder is
\* the value the reverse map has for it.
C20_MintedPlaceholdersRestored ==
    \A p \in DOMAIN reverse_map["A"] :
       restore_text(reverse_map["A"], p) = reverse_map["A"][p]

\* ------------------------------------------------------------------------
\* DocumentProcessor on the manager A: handlers are registered, and one call
\* of the dispatch or of process_batch is made, on a new manager or with the
\* mapping file of an earlier run in place
\* ------------------------------------------------------------------------
\* the handlers that can be registered: the class, and the extensions
\* can_handle accepts.  The mock handler is given '.txt' as well, so that
\* two handlers answer for one file.
TextDocumentHandler ==
    [class |-> "TextDocumentHandler",
     file_extensions |-> { <<".","t","x","t">>, <<".","t","e","x","t">>, <<".","m","d">>, <<".","c","s","v">>, <<".","t","s","v">> }]
PDFDocumentHandler ==
    [class |-> "PDFDocumentHandler", file_extensions |-> { <<".","p","d","f">> }]
MockDocumentHandler ==
    [class |-> "MockDocumentHandler", file_extensions |-> { <<".","m","o","c","k">>, <<".","t","x","t">> }]
HandlerSet == { TextDocumentHandler, PDFDocumentHandler, MockDocumentHandler }

\* the offset after the last c of s, 0 when s has none
LastIndexOf(s, c) == Max({k \in 1..Len(s) : s[k] = c} \cup {0})

\* os.path.splitext(p)[1]: from the last dot of the last component, unless
\* only dots are before it in the component
splitext(p) ==
    LET sep == LastIndexOf(p, "/")
        dot == LastIndexOf(p, ".")
    IN IF dot > sep /\ \E k \in (sep + 1)..(dot - 1) : p[k] # "."
       THEN SubSeq(p, dot, Len(p)) ELSE <<>>

\* handler.can_handle(file_path)
can_handle(handler, file_path) == splitext(Lower(file_path)) \in handler.file_extensions

\* get_handler_for_file(file_path): the index in self.handlers of the
\* handler returned, 0 for None
get_handler_for_file(handlers, file_path) ==
    LET answering == {k \in 1..Len(handlers) : can_handle(handlers[k], file_path)}
    IN IF answering = {} THEN 0 ELSE Min(answering)

\* the input directory of the model: three regular files and a directory
\* with the name of a text file, each file with its text
InputDir == <<"i","n">>
DirEntries ==
    { [name |-> <<"a",".","T","X","T">>, isfile |-> TRUE, content |-> <<"M","a","y">>],
      [name |-> <<"b",".","m","d">>, isfile |-> TRUE, content |-> <<"m","a","y">>],
      [name |-> <<"c",".","x","y","z">>, isfile |-> TRUE, content |-> <<"D","A","T","E">>],
      [name |-> <<"s","u","b",".","t","x","t">>, isfile |-> FALSE, content |-> <<>>] }
\* os.path.join(input_dir, filename)
join(dir, filename) == dir \o <<"/">> \o filename

\* what happens in a call of a handler: reading or writing the file fails
\* or not, and the NER call of anonymize_text returns or raises
HandlerEnvs(content, flags) ==
    [io_fails : BOOLEAN, nlp : NlpResults(PyStr(content), flags)]

\* what the handler keeps of the call of anonymize_text
handler_result(r) == [st |-> r.st, raised |-> r.raised]

\* handler.anonymize(input_path, output_path): extract_text, anonymize_text
\* on the manager, and the output written
handler_anonymize(st, content, flags, env) ==
    IF env.io_fails THEN [st |-> st, raised |-> TRUE]
    ELSE handler_result(anonymize_call(st, PyStr(content), flags, env.nlp))

\* handler.restore(anonymized_path, output_path): the text read, restore_text
\* on the manager, and the output written
handler_restore(st, content, flags, env) ==
    [st |-> st, raised |-> env.io_fails]

\* a dispatch without the try block: the failure of the handler is raised
document_result_uncaught(k, st, r) ==
    IF k = 0
    THEN [st |-> st, raised |-> FALSE, returned |-> FALSE, handler |-> 0,
          handler_outcome |-> "not called"]
    ELSE [st |-> r.st, raised |-> r.raised, returned |-> ~r.raised, handler |-> k,
          handler_outcome |-> IF r.raised THEN "raised" ELSE "completed"]

\* the body of anonymize_document and of restore_document after the lookup:
\* k is the handler found, 0 for None, and r the call of its method, made
\* in the try block
document_result(k, st, r) ==
    IF k = 0
    THEN [st |-> st, raised |-> FALSE, returned |-> FALSE, handler |-> 0,
          handler_outcome |-> "not called"]
    ELSE [st |-> r.st, raised |-> FALSE, returned |-> ~r.raised, handler |-> k,
          handler_outcome |-> IF r.raised THEN "raised" ELSE "completed"]

\* anonymize_document(input_path, output_path) for action "anonymize" and
\* restore_document(anonymized_path, output_path) for "restore": the
\* allocator state after the call, the value returned, the handler called
\* and what its call did
run_document(action, st, handlers, file_path, content, flags, env) ==
    document_result(get_handler_for_file(handlers, file_path), st,
                    IF action = "anonymize" THEN handler_anonymize(st, content, flags, env)
                    ELSE handler_restore(st, content, flags, env))

\* os.listdir(input_dir): up to MaxEntries entries of the directory, in any order
Listings ==
    UNION {{s \in [1..n -> DirEntries] : \A i, j \in 1..n : i # j => s[i] # s[j]} :
              n \in 0..MaxEntries}

\* what happens in the call of the handler of each entry of a listing: an
\* entry that gets no call has the one environment where nothing fails, and
\* restore_text does not call the NER model
QuietEnv == [io_fails |-> FALSE, nlp |-> [raises |-> FALSE, ents |-> <<>>]]
EnvsFor(action, e, handlers, flags) ==
    IF ~e.isfile \/ get_handler_for_file(handlers, join(InputDir, e.name)) = 0
    THEN {QuietEnv}
    ELSE IF action = "restore" THEN {QuietEnv, [QuietEnv EXCEPT !.io_fails = TRUE]}
    ELSE HandlerEnvs(e.content, flags)
RECURSIVE EnvsOf(_, _, _, _)
EnvsOf(action, listing, handlers, flags) ==
    IF listing = <<>> THEN {<<>>}
    ELSE {<<env>> \o rest : env \in EnvsFor(action, Head(listing), handlers, flags),
                            rest \in EnvsOf(action, Tail(listing), handlers, flags)}

\* register_handler(handler)
RegisterHandler ==
    /\ Len(processor.handlers) < MaxHandlers
    /\ \E handler \in HandlerSet :
          /\ \A k \in 1..Len(processor.handlers) : processor.handlers[k] # handler
          /\ processor' = [processor EXCEPT !.handlers = Append(@, handler)]
    /\ UNCHANGED <<pii_map, reverse_map, alias_generator, use_semantic_aliases, use_ner,
                   mapping_file, document, restored, last_ops, requests, ops,
                   allocated_type, draws_made, saved, loaded, generated, construction,
                   outcome>>

\* the regular files of the input directory, as paths
FilePaths == {e \in DirEntries : e.isfile}

\* get_handler_for_file(file_path)
GetHandler ==
    /\ ops = 0
    /\ \E e \in FilePaths :
          outcome' = [call |-> "get_handler_for_file", arg |-> join(InputDir, e.name),
                      raised |-> FALSE,
                      returned |-> get_handler_for_file(processor.handlers,
                                                        join(InputDir, e.name))]
    /\ Called("A", "get_handler", 0)
    /\ UNCHANGED <<pii_map, reverse_map, alias_generator, use_semantic_aliases, use_ner,
                   mapping_file, document, restored, allocated_type, draws_made, saved,
                   loaded, generated, construction, processor>>

\* anonymize_document or restore_document of a file of the input directory
Document(action) ==
    /\ ops = 0
    /\ \E e \in FilePaths :
       \E env \in EnvsFor(action, e, processor.handlers, Flags), draw \in DrawSet :
          \E r \in {run_document(action, AllocatorState("A", <<draw>>),
                                 processor.handlers, join(InputDir, e.name), e.content,
                                 Flags, env)} :
             /\ StoreAllocator("A", r.st)
             /\ outcome' = [call |-> action, arg |-> join(InputDir, e.name),
                            raised |-> r.raised, returned |-> r.returned,
                            handler |-> r.handler, handler_outcome |-> r.handler_outcome]
    /\ Called("A", action, 0)
    /\ UNCHANGED <<use_semantic_aliases, use_ner, mapping_file, document, restored,
                   saved, loaded, generated, construction, processor>>

AnonymizeDocument == Document("anonymize")
RestoreDocumentFile == Document("restore")

FileEvent(name) == [event |-> "file", name |-> name]
LoadEvent == [event |-> "load_mapping", name |-> <<>>]
SaveEvent == [event |-> "save_mapping", name |-> <<>>]

\* one turn of the loop of process_batch: the entry e is skipped when it is
\* not a regular file, else r, its anonymize_document or restore_document,
\* puts its name in one of the two lists
file_result(acc, e, r) ==
    IF ~e.isfile THEN acc
    ELSE [st |-> r.st,
          successful |-> IF r.returned THEN Append(acc.successful, e.name)
                         ELSE acc.successful,
          failed |-> IF r.returned THEN acc.failed ELSE Append(acc.failed, e.name),
          events |-> Append(acc.events, FileEvent(e.name))]

\* the loop of process_batch over the rest of the listing: acc has the
\* allocator state, the two lists of results and the events so far
RECURSIVE process_files(_, _, _, _, _, _)
process_files(action, acc, handlers, listing, flags, envs) ==
    IF listing = <<>> THEN acc
    ELSE process_files(action,
             file_result(acc, Head(listing),
                 run_document(action, acc.st, handlers,
                              join(InputDir, Head(listing).name), Head(listing).content,
                              flags, Head(envs))),
             handlers, Tail(listing), flags, Tail(envs))

\* a process_batch that saves the mapping only when no file failed
batch_result_saving_on_success(action, loads, done, file) ==
    [st |-> done.st, loads |-> loads,
     results |-> [successful |-> done.successful, failed |-> done.failed],
     events |-> IF action = "anonymize" /\ done.failed = <<>>
                THEN Append(done.events, SaveEvent) ELSE done.events,
     mapping_file |-> IF action = "anonymize" /\ done.failed = <<>>
                      THEN [exists |-> TRUE,
                            data |-> MappingData(done.st.pii_map, done.st.reverse_map)]
                      ELSE file]

\* the end of process_batch after done, its loop: the mapping is saved when
\* the action is 'anonymize', and results is returned
batch_result(action, loads, done, file) ==
    [st |-> done.st, loads |-> loads,
     results |-> [successful |-> done.successful, failed |-> done.failed],
     events |-> IF action = "anonymize" THEN Append(done.events, SaveEvent)
                ELSE done.events,
     mapping_file |-> IF action = "anonymize"
                      THEN [exists |-> TRUE,
                            data |-> MappingData(done.st.pii_map, done.st.reverse_map)]
                      ELSE file]

\* the start of process_batch: with action 'restore' and a mapping file in
\* place the mapping is loaded
batch_start(st, loads, file) ==
    [st |-> IF loads
            THEN [st EXCEPT !.pii_map = LoadedForward(file.data),
                            !.reverse_map = LoadedReverse(file.data)]
            ELSE st,
     successful |-> <<>>, failed |-> <<>>,
     events |-> IF loads THEN <<LoadEvent>> ELSE <<>>]

\* process_batch(input_dir, output_dir, mapping_path, action): the allocator
\* state after the call, the results returned, the mapping file, and the
\* events in their order
process_batch(action, st, handlers, listing, flags, envs, file) ==
    batch_result(action, action = "restore" /\ file.exists,
                 process_files(action,
                               batch_start(st, action = "restore" /\ file.exists, file),
                               handlers, listing, flags, envs),
                 file)

\* process_batch(input_dir, output_dir, mapping_path, action)
ProcessBatch(action) ==
    /\ ops = 0
    /\ \E listing \in Listings :
       \E envs \in EnvsOf(action, listing, processor.handlers, Flags), draw \in DrawSet :
          LET st == [AllocatorState("A", [k \in 1..Len(listing) |-> draw])
                        EXCEPT !.allocated_type =
                                  IF action = "restore" /\ mapping_file.exists
                                  THEN saved.allocated_type ELSE @]
          IN \E r \in {process_batch(action, st, processor.handlers, listing, Flags, envs,
                                     mapping_file)} :
             /\ StoreAllocator("A", r.st)
             /\ mapping_file' = r.mapping_file
             /\ saved' = IF r.mapping_file # mapping_file \/ action = "anonymize"
                         THEN [exists |-> TRUE, by |-> "A", pii_map |-> r.st.pii_map,
                               reverse_map |-> r.st.reverse_map,
                               allocated_type |-> r.st.allocated_type,
                               document |-> document]
                         ELSE saved
             /\ loaded' = IF r.loads THEN [loaded EXCEPT !["A"] = saved] ELSE loaded
             /\ processor' = [processor EXCEPT !.listing = listing, !.action = action,
                                               !.results = r.results, !.events = r.events]
             /\ outcome' = [call |-> "process_batch", arg |-> action, raised |-> FALSE,
                            returned |-> r.results]
    /\ Called("A", "batch", 0)
    /\ UNCHANGED <<use_semantic_aliases, use_ner, document, restored, generated,
                   construction>>

AnonymizeBatch == ProcessBatch("anonymize")
RestoreBatch == ProcessBatch("restore")

\* the mapping file an earlier run of the program left at mapping_path
EarlierMapping ==
    MappingData(DictSet(<<>>, <<"M","a","y">>, <<"<","D","A","T","E","_","0","b","1","e","2","d","3","c",">">>),
                DictSet(<<>>, <<"<","D","A","T","E","_","0","b","1","e","2","d","3","c",">">>, <<"M","a","y">>))
EarlierRun ==
    /\ ops = 0
    /\ ~mapping_file.exists
    /\ mapping_file' = [exists |-> TRUE, data |-> EarlierMapping]
    /\ saved' = [exists |-> TRUE, by |-> "A",
                 pii_map |-> JsonDict(EarlierMapping.pii_to_placeholder),
                 reverse_map |-> JsonDict(EarlierMapping.placeholder_to_pii),
                 allocated_type |-> DictSet(<<>>, <<"<","D","A","T","E","_","0","b","1","e","2","d","3","c",">">>, T_DATE),
                 document |-> NoDocument]
    /\ UNCHANGED <<pii_map, reverse_map, alias_generator, use_semantic_aliases, use_ner,
                   document, restored, last_ops, requests, ops, allocated_type,
                   draws_made, loaded, generated, construction, outcome, processor>>

NextProcessor ==
    \/ EarlierRun
    \/ RegisterHandler
    \/ GetHandler
    \/ AnonymizeDocument
    \/ RestoreDocumentFile
    \/ AnonymizeBatch
    \/ RestoreBatch
SpecProcessor == Init /\ [][NextProcessor]_vars

\* the number of times name is in the list
CountIn(list, name) == Cardinality({k \in 1..Len(list) : list[k] = name})

\* C18: process_batch with action 'anonymize': every regular file of the
\* input directory is in exactly one of results['successful'] and
\* results['failed'], a file no registered handler answers for is in
\* 'failed', a directory is in neither list, and the mapping file is written
\* once, after all files were processed, also when files failed.
C18_BatchResults ==
    [][(ops' = ops + 1 /\ outcome'.call = "process_batch" /\ outcome'.arg = "anonymize") =>
          LET listing == processor'.listing
              successful == processor'.results.successful
              failed == processor'.results.failed
              events == processor'.events
              files == {k \in 1..Len(listing) : listing[k].isfile}
          IN /\ outcome'.returned = processor'.results
             /\ \A k \in 1..Len(listing) :
                   IF listing[k].isfile
                   THEN CountIn(successful, listing[k].name)
                           + CountIn(failed, listing[k].name) = 1
                   ELSE CountIn(successful, listing[k].name)
                           + CountIn(failed, listing[k].name) = 0
             /\ \A k \in files :
                   (\A h \in 1..Len(processor.handlers) :
                       ~can_handle(processor.handlers[h], join(InputDir, listing[k].name)))
                      => CountIn(failed, listing[k].name) = 1
             /\ Len(events) = Cardinality(files) + 1
             /\ events[Len(events)] = SaveEvent
             /\ \A k \in 1..(Len(events) - 1) : events[k].event = "file"
             /\ \A k \in files : \E j \in 1..(Len(events) - 1) :
                   events[j] = FileEvent(listing[k].name)
             /\ mapping_file'.exists
             /\ mapping_file'.data = MappingData(pii_map'["A"], reverse_map'["A"])]_vars

\* a batch over a directory, a file without handler and a file whose handler
\* completed: the mapping is written although a file failed
C18_Witness ==
    /\ processor.action = "anonymize"
    /\ Len(processor.listing) = 3
    /\ \E k \in 1..3 : ~processor.listing[k].isfile
    /\ processor.results.successful = << <<"a",".","T","X","T">> >>
    /\ processor.results.failed = << <<"c",".","x","y","z">> >>
    /\ mapping_file.exists
    /\ pii_map["A"] # <<>>

\* C19: get_handler_for_file returns the first handler in registration order
\* whose can_handle is true, and None when there is none; anonymize_document
\* and restore_document do not raise, return False when no handler is found
\* or the handler raises, and return True only when the handler's anonymize
\* or restore completed.
C19_Dispatch ==
    [][(ops' = ops + 1) =>
          LET handlers == processor.handlers
              first(k, file_path) ==
                  IF k = 0
                  THEN \A j \in 1..Len(handlers) : ~can_handle(handlers[j], file_path)
                  ELSE /\ k \in 1..Len(handlers)
                       /\ can_handle(handlers[k], file_path)
                       /\ \A j \in 1..(k - 1) : ~can_handle(handlers[j], file_path)
          IN /\ outcome'.call = "get_handler_for_file"
                   => first(outcome'.returned, outcome'.arg)
             /\ outcome'.call \in { "anonymize", "restore" } =>
                   /\ ~outcome'.raised
                   /\ first(outcome'.handler, outcome'.arg)
                   /\ (outcome'.handler = 0 \/ outcome'.handler_outcome = "raised")
                         => outcome'.returned = FALSE
                   /\ outcome'.returned = TRUE => outcome'.handler_outcome = "completed"
                   /\ outcome'.returned \in BOOLEAN]_vars

\* two handlers answer for a.TXT and the first registered one was called,
\* and it raised
C19_Witness ==
    /\ Len(processor.handlers) = 2
    /\ processor.handlers[1] = MockDocumentHandler
    /\ processor.handlers[2] = TextDocumentHandler
    /\ outcome.call = "anonymize"
    /\ outcome.arg = <<"i","n","/","a",".","T","X","T">>
    /\ outcome.handler = 1
    /\ outcome.handler_outcome = "raised"
    /\ outcome.returned = FALSE
\* ------------------------------------------------------------------------
\* One call of _detect_entities_with_ner on a text of up to MaxEntityWords
\* words of the classifier's own vocabulary
\* ------------------------------------------------------------------------
\* The words: a simple capitalized word, an organization suffix, a product
\* keyword, a location word, an abbreviation, a two-letter code, an
\* alphanumeric code and an exchange prefix.
EntityVocabulary ==
    { <<"J","o","h","n">>, <<"C","o","r","p">>, <<"S","u","i","t","e">>, <<"N","o","r","t","h">>, <<"I","B","M">>, <<"C","A">>, <<"3","M">>, <<"N","Y","S","E">> }
RECURSIVE WordsOf(_, _)
WordsOf(words, n) ==
    IF n = 1 THEN words
    ELSE {w \o <<" ">> \o rest : w \in words, rest \in WordsOf(words, n - 1)}
EntityTexts == UNION {WordsOf(EntityVocabulary, n) : n \in 1..MaxEntityWords}

\* _detect_entities_with_ner(text): the guard on use_ner and nlp, then the
\* five steps
detect_entities(flags, text, ents) ==
    IF ~flags.use_ner \/ flags.nlp = "None" THEN <<>>
    ELSE detect_entities_with_ner(text, ents)

DetectEntities ==
    /\ ops = 0
    /\ \E text \in EntityTexts :
       \E ents \in (IF Flags.use_ner /\ Flags.nlp # "None" THEN NerOutcomes(text)
                    ELSE {<<>>}) :
          outcome' = [call |-> "_detect_entities_with_ner", arg |-> text, ents |-> ents,
                      returned |-> detect_entities(Flags, text, ents)]
    /\ Called("A", "detect_entities", 0)
    /\ UNCHANGED <<pii_map, reverse_map, alias_generator, use_semantic_aliases, use_ner,
                   mapping_file, document, restored, allocated_type, draws_made, saved,
                   loaded, generated, construction, processor>>

NextEntities == DetectEntities
SpecEntities == Init /\ [][NextEntities]_vars

\* two spans share a character offset
Overlap(a, b) == a.start < b.end /\ b.start < a.end

\* the number of entities step 1 added in the call stored in outcome
FromNer == Len(NerStep(outcome.arg, outcome.ents, [entities |-> <<>>, detected_spans |-> {}]).entities)

\* C21: in one call of _detect_entities_with_ner no detection added by steps
\* 2 to 5 has a span that shares a character offset with the span of a
\* detection added before it, by an earlier step or earlier in its step.
C21_NoOverlappingSpans ==
    outcome.call = "_detect_entities_with_ner" =>
        \A j \in 1..Len(outcome.returned) : \A i \in 1..(j - 1) :
            j > FromNer => ~Overlap(outcome.returned[i], outcome.returned[j])

\* the entities of the call stored in outcome that steps 1 and 2 added are
\* the first FromProperNouns of the list returned
FromProperNouns ==
    Len(ProperNounStep(outcome.arg, ProperNounSpans(outcome.arg),
            NerStep(outcome.arg, outcome.ents,
                    [entities |-> <<>>, detected_spans |-> {}])).entities)

\* a word that is alphabetic, with an uppercase first letter and a lowercase tail
SimpleCapitalized(word) ==
    /\ word # <<>>
    /\ word[1] \in UpperChars
    /\ \A k \in 2..Len(word) : word[k] \in LowerChars

\* the type the precedence of the statement gives a proper-noun run
PrecedenceType(run) ==
    LET words == Split(run)
    IN IF \E kw \in ProductKeywords : Contains(run, kw) THEN T_PRODUCT
       ELSE IF \E sf \in OrgSuffixes : Contains(run, sf) THEN T_ORGANIZATION
       ELSE IF Len(words) = 2 /\ \A k \in 1..2 : SimpleCapitalized(words[k]) THEN T_NAME
       ELSE IF \E k \in 1..Len(words) : words[k] \in LocationWords THEN T_LOCATION
       ELSE T_ORGANIZATION

\* C26: the type of every detection of the proper-noun step follows the
\* precedence product keyword, organization suffix, two simple capitalized
\* words (NAME), location keyword (for runs of one word and of several
\* words alike), and ORGANIZATION otherwise.
C26_ClassificationPrecedence ==
    (outcome.call = "_detect_entities_with_ner" /\ use_ner["A"]) =>
        \A j \in (FromNer + 1)..FromProperNouns :
            outcome.returned[j].type = PrecedenceType(outcome.returned[j].text)

\* the same precedence, where the location keyword is looked for in runs of
\* several words only
C26_MultiWordLocation ==
    (outcome.call = "_detect_entities_with_ner" /\ use_ner["A"]) =>
        \A j \in (FromNer + 1)..FromProperNouns :
            LET e == outcome.returned[j]
            IN e.type = IF ~HasBlank(e.text) /\ PrecedenceType(e.text) = T_LOCATION
                        THEN T_ORGANIZATION ELSE PrecedenceType(e.text)

\* the matches of the proper-noun pattern that are one token of two
\* upper-case letters, no character of which the NER step claimed
BareTwoLetterCodes ==
    LET spans == ProperNounSpans(outcome.arg)
    IN {k \in 1..Len(spans) :
          /\ spans[k][2] - spans[k][1] = 2
          /\ IsUpperStr(Slice(outcome.arg, spans[k][1], spans[k][2]))
          /\ \A i \in 1..FromNer :
                ~Overlap(outcome.returned[i], [start |-> spans[k][1], end |-> spans[k][2]])}

\* C27: a single token of two upper-case letters that is not already claimed
\* is detected by the proper-noun step with type LOCATION, and is not
\* detected as ORGANIZATION.
C27_TwoLetterCode ==
    (outcome.call = "_detect_entities_with_ner" /\ use_ner["A"]) =>
        \A k \in BareTwoLetterCodes :
            LET sp == ProperNounSpans(outcome.arg)[k]
                code == [text |-> Slice(outcome.arg, sp[1], sp[2]), type |-> T_LOCATION,
                         start |-> sp[1], end |-> sp[2]]
            IN /\ \E j \in (FromNer + 1)..FromProperNouns : outcome.returned[j] = code
               /\ \A j \in 1..Len(outcome.returned) :
                     outcome.returned[j].text = code.text
                        => outcome.returned[j].type # T_ORGANIZATION
\* ------------------------------------------------------------------------
\* Properties of one anonymize_text (SpecRoundTrip): allocation for a value
\* detected more than once, and the substitution
\* ------------------------------------------------------------------------
\* the detections of the stored call whose value is the one of detection k
SameValue(k) ==
    {j \in 1..Len(document.detections) :
        document.detections[j].original = document.detections[k].original}
\* the value of detection k is detected under more than one type
SeveralTypes(k) ==
    \E j \in SameValue(k) : document.detections[j].pii_type # document.detections[k].pii_type

\* C22 as stated: when a value is detected under more than one type in one
\* call, the placeholder stored for it is the one allocated for the last of
\* these detections.
C22_LastWriterWins ==
    document.exists =>
        \A k \in 1..Len(document.detections) :
            SeveralTypes(k) =>
                allocated_type[document.by][pii_map[document.by][document.detections[k].original]]
                    = document.detections[Max(SameValue(k))].pii_type

\* C22: when a value that had no placeholder is detected under more than one
\* type in one call, the placeholder stored for it is the one allocated for
\* the first of these detections, and every detection of the value in the
\* call carries that placeholder.
C22_FirstWriterWins ==
    document.exists =>
        \A k \in 1..Len(document.detections) :
            SeveralTypes(k) =>
                LET stored == pii_map[document.by][document.detections[k].original]
                IN /\ allocated_type[document.by][stored]
                         = document.detections[Min(SameValue(k))].pii_type
                   /\ document.detections[k].placeholder = stored

\* the entity classifier detects DATE as ORGANIZATION after nlp has labelled
\* the first DATE a place: the value has the alias of a location
C22_Witness ==
    /\ document.exists
    /\ document.text = <<"D","A","T","E"," ","D","A","T","E">>
    /\ \E i, j \in 1..Len(document.detections) :
          /\ i < j
          /\ document.detections[i].original = <<"D","A","T","E">>
          /\ document.detections[i].pii_type = T_LOCATION
          /\ document.detections[j].original = <<"D","A","T","E">>
          /\ document.detections[j].pii_type = T_ORGANIZATION
          /\ document.detections[j].placeholder = <<"L","O","C","A","T","I","O","N","_","1">>
    /\ pii_map["A"][<<"D","A","T","E">>] = <<"L","O","C","A","T","I","O","N","_","1">>

\* the marks that stand for the placeholders while the text is rewritten: a
\* mark is one element of the text, which no value matches
Marks == << "#1", "#2", "#3", "#4", "#5", "#6", "#7", "#8" >>

\* the list without the elements whose value an earlier element has
RECURSIVE DistinctValues(_, _)
DistinctValues(ts, seen) ==
    IF ts = <<>> THEN <<>>
    ELSE IF Head(ts).original \in seen THEN DistinctValues(Tail(ts), seen)
    ELSE <<Head(ts)>> \o DistinctValues(Tail(ts), seen \cup {Head(ts).original})

\* one global literal replacement per element of ts, from the k-th mark on,
\* each occurrence of a value being replaced by the mark of its placeholder
RECURSIVE MarkAll(_, _, _)
MarkAll(cur, ts, k) ==
    IF ts = <<>> THEN cur
    ELSE MarkAll(Replace(cur, Head(ts).original, <<Marks[k]>>), Tail(ts), k + 1)

\* the marks replaced by their placeholders
RECURSIVE Unmark(_, _)
Unmark(cur, ts) ==
    IF cur = <<>> THEN <<>>
    ELSE (IF \E k \in 1..Len(ts) : Marks[k] = Head(cur)
          THEN ts[CHOOSE k \in 1..Len(ts) : Marks[k] = Head(cur)].placeholder
          ELSE <<Head(cur)>>) \o Unmark(Tail(cur), ts)

\* the text where every distinct detected value is replaced once, in the
\* order of the replacement loop, and no replacement reads the text of a
\* placeholder that is already inserted
SubstitutedOnce(text, detections) ==
    LET ts == DistinctValues(SortReverse(text_indices(text, detections)), {})
    IN Unmark(MarkAll(text, ts, 1), ts)

\* C23: the output of anonymize_text is the text where each distinct
\* detected value is replaced once, by one global literal replacement: a
\* value detected at several positions, and a placeholder inserted earlier
\* in the call, are not rewritten by a later replacement.
C23_SubstitutedOnce ==
    document.exists =>
        document.anonymized = SubstitutedOnce(document.text, document.detections)

\* C24: anonymize_text replaces the values in descending order of the
\* position of their first occurrence in the original text, and of two
\* values with the same first position it replaces the longer one first.
C24_SubstitutionOrder ==
    document.exists =>
        LET ts == SortReverse(text_indices(document.text, document.detections))
        IN /\ Len(ts) = Len(document.detections)
           /\ \A k \in 1..Len(document.detections) :
                 \E i \in 1..Len(ts) : ts[i].original = document.detections[k].original
           /\ \A i \in 1..Len(ts) :
                 /\ ts[i].position >= 0
                 /\ StartsAt(document.text, ts[i].original, ts[i].position)
                 /\ \A q \in 0..(ts[i].position - 1) :
                       ~StartsAt(document.text, ts[i].original, q)
           /\ \A i, j \in 1..Len(ts) :
                 i < j =>
                    /\ ts[i].position >= ts[j].position
                    /\ ts[i].position = ts[j].position
                          => /\ Len(ts[i].original) >= Len(ts[j].original)
                             /\ StartsAt(ts[i].original, ts[j].original, 0)
           /\ document.anonymized = ReplaceAll(document.text, ts)

\* a text with a value at a later position and two values that start at
\* offset 0, one a prefix of the other
C24_Witness ==
    /\ document.exists
    /\ document.text = <<"D","A","T","E"," ","M","a","y">>
    /\ LET ts == SortReverse(text_indices(document.text, document.detections))
       IN /\ Len(ts) = 3
          /\ ts[1].original = <<"M","a","y">>
          /\ ts[2].original = <<"D","A","T","E"," ","M","a","y">>
          /\ ts[3].original = <<"D","A","T","E">>
\* ------------------------------------------------------------------------
\* Properties of restore_text in the specification of the text methods
\* ------------------------------------------------------------------------
\* two slices of a text share a character offset
SpansOverlap(a, b) == a[1] < b[2] /\ b[1] < a[2]

\* the text from offset i on where every match that is a key of the reverse
\* map is replaced over its own span, all at once
RECURSIVE ReplacedAtOnce(_, _, _, _)
ReplacedAtOnce(text, ms, rm, i) ==
    IF i >= Len(text) THEN <<>>
    ELSE LET here == {k \in 1..Len(ms) : ms[k].span[1] = i /\ ms[k].text \in DOMAIN rm}
         IN IF here = {} THEN <<At(text, i)>> \o ReplacedAtOnce(text, ms, rm, i + 1)
            ELSE rm[ms[Min(here)].text]
                 \o ReplacedAtOnce(text, ms, rm, ms[Min(here)].span[2])

\* C25: the matches restore_text collects from the two shapes do not overlap
\* one another, and its result is the input where each match that is a key
\* of the reverse map is replaced over its own span, the text outside these
\* matches being unchanged and a restored original not being scanned again.
C25_SinglePass ==
    (outcome.call = "restore_text" /\ outcome.arg.type = "str") =>
        LET text == outcome.arg.value
            ms == AllMatches(text)
        IN /\ \A i, j \in 1..Len(ms) : i # j => ~SpansOverlap(ms[i].span, ms[j].span)
           /\ outcome.returned = PyStr(ReplacedAtOnce(text, ms, reverse_map["A"], 0))

\* an alias and an opaque token right after it, both keys of the reverse
\* map, with originals of other lengths
C25_Witness ==
    /\ outcome.call = "restore_text"
    /\ outcome.arg = PyStr(<<"m","a","y"," ","A","C","M","E","_","C","O","R","P","<","D","A","T","E","_","0","b","1","e","2","d","3","c",">">>)
    /\ outcome.returned = PyStr(<<"m","a","y"," ","D","A","T","E","M","a","y">>)
\* ------------------------------------------------------------------------
\* The methods that read the maps, on the manager A, between calls of
\* anonymize_text: each method gives the manager as it leaves it
\* ------------------------------------------------------------------------
\* the maps and the alias generator of manager m
ManagerOf(m) ==
    [pii_map |-> pii_map[m], reverse_map |-> reverse_map[m], gen |-> alias_generator[m]]

\* a restore_text that takes the restored placeholders out of the reverse map
restore_text_consuming(mgr, text) ==
    [mgr |-> [mgr EXCEPT !.reverse_map =
                 [p \in DOMAIN mgr.reverse_map
                        \ {AllMatches(text)[k].text : k \in 1..Len(AllMatches(text))}
                    |-> mgr.reverse_map[p]]],
     returned |-> restore_text(mgr.reverse_map, text)]

\* restore_text(anonymized_text) on a text
restore_text_on(mgr, text) ==
    [mgr |-> mgr, returned |-> restore_text(mgr.reverse_map, text)]
\* save_mapping(filename): returned is the document written
save_mapping_on(mgr) ==
    [mgr |-> mgr, returned |-> MappingData(mgr.pii_map, mgr.reverse_map)]
\* get_statistics()
get_statistics_on(mgr) ==
    [mgr |-> mgr, returned |-> get_statistics(mgr.pii_map, mgr.reverse_map)]
\* get_mapping()
get_mapping_on(mgr) == [mgr |-> mgr, returned |-> mgr.pii_map]

\* the manager A as the call leaves it
StoreManager(mgr) ==
    /\ pii_map' = [pii_map EXCEPT !["A"] = mgr.pii_map]
    /\ reverse_map' = [reverse_map EXCEPT !["A"] = mgr.reverse_map]
    /\ alias_generator' = [alias_generator EXCEPT !["A"] = mgr.gen]

ReadAnonymize == ops < MaxReadCalls /\ AnonymizeIn("A", SessionTexts)

ReadRestore ==
    /\ ops < MaxReadCalls
    /\ document.exists
    /\ \E r \in {restore_text_on(ManagerOf("A"), document.anonymized)} :
          /\ StoreManager(r.mgr)
          /\ restored' = [restored EXCEPT !["A"] =
                             [of |-> document.anonymized, text |-> r.returned]]
          /\ outcome' = [call |-> "restore_text", returned |-> r.returned]
    /\ Called("A", "restore", 0)
    /\ UNCHANGED <<use_semantic_aliases, use_ner, mapping_file, document, allocated_type,
                   draws_made, saved, loaded, generated, construction, processor>>

ReadSave ==
    /\ ops < MaxReadCalls
    /\ \E r \in {save_mapping_on(ManagerOf("A"))} :
          /\ StoreManager(r.mgr)
          /\ mapping_file' = [exists |-> TRUE, data |-> r.returned]
          /\ saved' = [exists |-> TRUE, by |-> "A", pii_map |-> pii_map["A"],
                       reverse_map |-> reverse_map["A"],
                       allocated_type |-> allocated_type["A"], document |-> document]
          /\ outcome' = [call |-> "save_mapping", returned |-> r.returned]
    /\ Called("A", "save", 0)
    /\ UNCHANGED <<use_semantic_aliases, use_ner, document, restored, allocated_type,
                   draws_made, loaded, generated, construction, processor>>

GetStatistics ==
    /\ ops < MaxReadCalls
    /\ \E r \in {get_statistics_on(ManagerOf("A"))} :
          /\ StoreManager(r.mgr)
          /\ outcome' = [call |-> "get_statistics", returned |-> r.returned]
    /\ Called("A", "get_statistics", 0)
    /\ UNCHANGED <<use_semantic_aliases, use_ner, mapping_file, document, restored,
                   allocated_type, draws_made, saved, loaded, generated, construction,
                   processor>>

GetMapping ==
    /\ ops < MaxReadCalls
    /\ \E r \in {get_mapping_on(ManagerOf("A"))} :
          /\ StoreManager(r.mgr)
          /\ outcome' = [call |-> "get_mapping", returned |-> r.returned]
    /\ Called("A", "get_mapping", 0)
    /\ UNCHANGED <<use_semantic_aliases, use_ner, mapping_file, document, restored,
                   allocated_type, draws_made, saved, loaded, generated, construction,
                   processor>>

NextReadOnly == ReadAnonymize \/ ReadRestore \/ ReadSave \/ GetStatistics \/ GetMapping
SpecReadOnly == Init /\ [][NextReadOnly]_vars

\* the values and the placeholders of the detections of the stored call
DetectedValues == {document.detections[k].original : k \in 1..Len(document.detections)}
DetectedPlaceholders ==
    {document.detections[k].placeholder : k \in 1..Len(document.detections)}

\* C28: restore_text, save_mapping, get_statistics and get_mapping leave the
\* forward map, the reverse map and the counters and used aliases of the
\* alias generator as they were; an anonymize_text changes them by the
\* allocations of its detections only: the keys it adds to the forward map
\* are detected values, each with the placeholder of its detection, and the
\* keys it adds to the reverse map are these placeholders, so the
\* replacement of the text adds and changes nothing.
C28_ReadOnly ==
    [][(ops' = ops + 1) =>
          /\ last_ops'["A"][2] \in { "restore", "save", "get_statistics", "get_mapping" }
                => ManagerUnchanged
          /\ last_ops'["A"][2] = "anonymize" =>
                /\ DOMAIN pii_map'["A"] = DOMAIN pii_map["A"] \cup DetectedValues'
                /\ \A v \in DOMAIN pii_map["A"] : pii_map'["A"][v] = pii_map["A"][v]
                /\ \A k \in 1..Len(document'.detections) :
                      pii_map'["A"][document'.detections[k].original]
                         = document'.detections[k].placeholder
                /\ DOMAIN reverse_map'["A"] \subseteq
                      DOMAIN reverse_map["A"] \cup DetectedPlaceholders'
                /\ DetectedValues' \subseteq DOMAIN pii_map["A"]
                      => ManagerUnchanged]_vars

\* every read-only method was called on a manager that has allocated: the
\* statistics after a restore_text that followed a save_mapping
C28_Witness ==
    /\ pii_map["A"] # <<>>
    /\ alias_generator["A"] # NewGenerator
    /\ last_ops["A"] = <<"restore", "get_statistics">>
    /\ mapping_file.exists
    /\ outcome.call = "get_statistics"
    /\ outcome.returned[TOTAL] = 1

\* ------------------------------------------------------------------------
\* The forward map over a session
\* ------------------------------------------------------------------------
\* every entry of the forward map before the step is an entry after it
ForwardMapKept(m) ==
    \A v \in DOMAIN pii_map[m] :
        v \in DOMAIN pii_map'[m] /\ pii_map'[m][v] = pii_map[m][v]

\* C29: forward-map stability.  Every call of a manager other than
\* load_mapping (detect_pii_in_text, anonymize_text, restore_text, and
\* save_mapping too) leaves every entry of its forward map in place with the
\* placeholder it had: the map only grows, no entry is removed or
\* re-assigned, and so an entry holds in every later state of a session
\* without load_mapping.
C29_ForwardMapStable ==
    [][\A m \in Managers :
          (ops' = ops + 1 /\ last_ops'[m][2] # "load") => ForwardMapKept(m)
      ]_vars

\* C29 happens: a session of four calls without load_mapping whose first
\* three calls asked for a placeholder three times and allocated two, so the
\* second allocation and the repeated request both met a map with an entry,
\* followed by restore_text.
C29_Witness ==
    /\ ops = 4
    /\ ~loaded["A"].exists
    /\ last_ops["A"] = <<"detect", "restore">>
    /\ requests["A"] = 3
    /\ draws_made["A"] = 2
    /\ Cardinality(DOMAIN pii_map["A"]) = 2

\* ------------------------------------------------------------------------
\* The maps after a call in which nlp raised
\* ------------------------------------------------------------------------
\* the step is a detect_pii_in_text or anonymize_text in which nlp(text) raised
NerFailed ==
    /\ CallStep
    /\ outcome'.call \in { "detect_pii_in_text", "anonymize_text" }
    /\ outcome'.nlp = "raised"

\* the values the patterns match in the text of the call
PatternValues == {PatternDetections(outcome'.arg.value)[k].value :
                     k \in 1..Len(PatternDetections(outcome'.arg.value))}

\* after the step every pattern match of the text has a placeholder in the
\* forward map, and that placeholder is a key of the reverse map
PatternMatchesAllocated ==
    \A v \in PatternValues :
        /\ v \in DOMAIN pii_map'["A"]
        /\ pii_map'["A"][v] \in DOMAIN reverse_map'["A"]

\* C30 as stated: when the NER call raises during detect_pii_in_text or
\* anonymize_text, the maps hold the placeholders of the pattern matches of
\* the text and differ from their value before the call.
C30_MapsDiffer ==
    [][NerFailed =>
          /\ PatternMatchesAllocated
          /\ <<pii_map', reverse_map'>> # <<pii_map, reverse_map>>
      ]_vars

\* C30: state on NER failure.  When the NER call raises during
\* detect_pii_in_text or anonymize_text, the maps hold the placeholders of the
\* pattern matches of the text, and the allocations of the failed call stay:
\* no entry the maps had is lost, one random draw was made per pattern match
\* that had no placeholder, and each map differs from its value before the
\* call exactly when the text has a pattern match that had no placeholder.
C30_StateOnNerFailure ==
    [][NerFailed =>
          /\ PatternMatchesAllocated
          /\ ForwardMapKept("A")
          /\ DOMAIN pii_map'["A"] = DOMAIN pii_map["A"] \cup PatternValues
          /\ draws_made'["A"] - draws_made["A"]
                = Cardinality(PatternValues \ DOMAIN pii_map["A"])
          /\ pii_map' # pii_map <=> PatternValues \ DOMAIN pii_map["A"] # {}
          /\ reverse_map' # reverse_map <=> PatternValues \ DOMAIN pii_map["A"] # {}
      ]_vars

\* C30 happens: the first call of a manager is a detect_pii_in_text of a date
\* in which nlp raises, and the date has a placeholder in both maps after it
C30_Witness ==
    /\ ops = 1
    /\ outcome.call = "detect_pii_in_text"
    /\ outcome.arg = PyStr(<<"M","a","y">>)
    /\ outcome.nlp = "raised"
    /\ outcome.raised
    /\ DOMAIN pii_map["A"] = { <<"M","a","y">> }
    /\ reverse_map["A"][pii_map["A"][<<"M","a","y">>]] = <<"M","a","y">>
====
